---- MODULE Spec2Model ----
(***************************************************************************)
(* Model of the ride / participation domain API of mx-wll/ride-v2:         *)
(*   src/src/shared/api/participants.ts  (joinRide, leaveRide)             *)
(*   src/src/shared/api/rides.ts         (createRide, updateRide,          *)
(*                                        deleteRide)                      *)
(*   src/src/shared/utils/api-error.ts   (handleApiOperation, ...)         *)
(*                                                                         *)
(* The backend tables are the shared state.  Every API function is an      *)
(* async function: it runs atomically between two awaits, and calls issued *)
(* by different clients interleave at the awaits.  Each await of a backend *)
(* request is therefore one action; the synchronous checks that follow the *)
(* await belong to the same action.                                        *)
(***************************************************************************)
EXTENDS Integers, FiniteSets, Sequences, TLC

\* ------------------------------------------------------------------ bounds
MaxTime == 1
MaxRows == 3
\* The dashboard is followed from MaxAhead seconds before a 'now' ride expires
\* to MaxTime seconds after.
MaxAhead == 2
\* The creation drawer is opened at any minute of the first MaxDays days, and
\* at most MaxDrift minutes pass between two reads of the clock in one call.
MaxDays == 1
MaxDrift == 1
\* Redirects of the gate are followed up to MaxRedirects times.
MaxRedirects == 3

\* ------------------------------------------------------------- vocabulary
Users == {"u1", "u2"}
NoUser == "none"
Calls == {"c1", "c2"}
RideIds == {"r1"}
NoRideId == "none"
Times == 0..MaxTime
Statuses == {"open", "closed", "cancelled"}
KeepStatus == "keep"
KeepTime == -1

\* A row of the rides table (only the columns the API functions read).
NoRide == [creator_id |-> NoUser, status |-> "none", start_time |-> 0]
RideRows == [creator_id : Users, status : Statuses, start_time : Times]

\* UpdateRideInput restricted to the columns the model keeps; a field that
\* is absent from the input is KeepStatus / KeepTime.  The inputs drawn
\* change one column at a time.
\* The input of a call is read only by its last request, so the model draws
\* it there.
UpdateRideInput == [status : Statuses, start_time : {KeepTime}]
                     \cup [status : {KeepStatus}, start_time : Times]
\* CreateRideInput: start_time is the only column of the type the model
\* keeps.  The type declares neither creator_id nor status, but the object is
\* spread into the inserted row as it is, so the inputs drawn may carry them
\* (NoUser / KeepStatus when they do not).
CreateRideInput == [creator_id : Users \cup {NoUser}, status : Statuses \cup {KeepStatus},
                    start_time : Times]

VARIABLES
  now,           \* wall clock (new Date())
  rides,         \* table rides: id -> row, NoRide when there is no row
  usedIds,       \* ids the backend has generated so far (ids are never reused)
  participants,  \* table ride_participants: <<ride_id, user_id>> -> number of rows
  calls,         \* the API calls in flight or returned, one per client slot
  trip,          \* history: the join/leave round trip being followed
  query,         \* one getAllRides call: its position, what it read, its result
  wrapped,       \* one handleApiOperation call: the operation and the envelope
  card,          \* one RideCard of the dashboard: its state and its handlers
  page,          \* the page container: the listed ride and the loaded profile
  drawer,        \* one getTimeRangeForPreset call of the creation drawer, and its clock
  gate,          \* one request passing through updateSession
  actor,         \* history: the caller and the userId argument of each join/leave call
  hook           \* one instance of a profile hook: its state and its subscriptions

\* The tables, the clock and the API calls that write the tables.
backendVars == <<now, rides, usedIds, participants, calls, trip>>
\* The variables of the other components.
others == <<query, wrapped, card, page, drawer, gate, actor, hook>>
vars == <<now, rides, usedIds, participants, calls, trip, query, wrapped, card, page,
          drawer, gate, actor, hook>>

\* ---------------------------------------------------------------- errors
\* ApiErrorCode (the closed set of codes).
ApiErrorCode == {"INVALID_CREDENTIALS", "USER_NOT_FOUND", "EMAIL_ALREADY_EXISTS",
                 "WEAK_PASSWORD", "UNAUTHORIZED", "NOT_FOUND", "VALIDATION_ERROR",
                 "DUPLICATE_ENTRY", "NETWORK_ERROR", "SERVER_ERROR", "RATE_LIMITED",
                 "RIDE_FULL", "RIDE_EXPIRED", "ALREADY_PARTICIPANT",
                 "NOT_PARTICIPANT", "CANNOT_LEAVE_OWN_RIDE"}

\* The phrases mapSupabaseError looks for with message.includes(...).
\* A message is modelled by the set of those phrases it contains.
Phrases == {"Invalid login credentials", "User not found", "Email already registered",
            "Password should be", "JWT", "unauthorized", "foreign key", "duplicate",
            "network", "fetch"}

\* ERROR_MESSAGES: the default user message of each code.
ERROR_MESSAGES ==
  [code \in ApiErrorCode |->
     CASE code = "INVALID_CREDENTIALS" -> "Invalid email or password. Please try again."
       [] code = "USER_NOT_FOUND" -> "User account not found."
       [] code = "EMAIL_ALREADY_EXISTS" -> "An account with this email already exists."
       [] code = "WEAK_PASSWORD" -> "Password is too weak. Please choose a stronger password."
       [] code = "UNAUTHORIZED" -> "You are not authorized to perform this action."
       [] code = "NOT_FOUND" -> "The requested resource was not found."
       [] code = "VALIDATION_ERROR" -> "Please check your input and try again."
       [] code = "DUPLICATE_ENTRY" -> "This entry already exists."
       [] code = "NETWORK_ERROR" -> "Network error. Please check your connection and try again."
       [] code = "SERVER_ERROR" -> "Something went wrong. Please try again later."
       [] code = "RATE_LIMITED" -> "Too many requests. Please wait a moment and try again."
       [] code = "RIDE_FULL" -> "This ride is already full."
       [] code = "RIDE_EXPIRED" -> "This ride has already started or expired."
       [] code = "ALREADY_PARTICIPANT" -> "You are already participating in this ride."
       [] code = "NOT_PARTICIPANT" -> "You are not participating in this ride."
       [] code = "CANNOT_LEAVE_OWN_RIDE" ->
            "You cannot leave a ride you created. Cancel the ride instead."]

\* The userMessage literal an API function passes where it throws an
\* AppError (one value stands for the literals of all throw sites).
SiteMessage == "user message of the throw site"

\* new AppError(code, message, userMessage)
AppError(code, userMessage) ==
  [kind |-> "AppError", code |-> code, message |-> {}, userMessage |-> userMessage]
\* An error object returned by the backend client; code "" is no code.  A
\* thrown value without code and message is BackendError("", {}).
BackendError(code, message) ==
  [kind |-> "BackendError", code |-> code, message |-> message, userMessage |-> ""]
NoError == [kind |-> "none", code |-> "", message |-> {}, userMessage |-> ""]

\* PostgREST/.single(): "JSON object requested, multiple (or no) rows returned".
PGRST116 == BackendError("PGRST116", {})
\* Foreign-key violation on insert.
FKViolation == BackendError("23503", {"foreign key"})

\* The data an operation returns: a row (or list), or null.
Null == "null"
Row == "row"

\* What the operation passed to handleApiOperation did: returned or threw.
Returned(data) == [threw |-> FALSE, data |-> data, error |-> NoError]
Threw(e) == [threw |-> TRUE, data |-> Null, error |-> e]

\* ApiError {code, userMessage}; NoApiError is error: null.
NoApiError == [code |-> "", userMessage |-> ""]
\* createApiError(code, message?, userMessage?): userMessage || ERROR_MESSAGES[code]
createApiError(code, userMessage) ==
  [code |-> code, userMessage |-> IF userMessage # "" THEN userMessage ELSE ERROR_MESSAGES[code]]

createSuccessResponse(data) == [data |-> data, error |-> NoApiError, success |-> TRUE]
createErrorResponse(error) == [data |-> Null, error |-> error, success |-> FALSE]
\* No envelope (the promise has not resolved).
NoResponse == [data |-> Null, error |-> NoApiError, success |-> FALSE]

mapSupabaseError(e) ==
  IF "Invalid login credentials" \in e.message THEN createApiError("INVALID_CREDENTIALS", "")
  ELSE IF "User not found" \in e.message THEN createApiError("USER_NOT_FOUND", "")
  ELSE IF "Email already registered" \in e.message \/ e.code = "23505"
    THEN createApiError("EMAIL_ALREADY_EXISTS", "")
  ELSE IF "Password should be" \in e.message THEN createApiError("WEAK_PASSWORD", "")
  ELSE IF "JWT" \in e.message \/ "unauthorized" \in e.message
    THEN createApiError("UNAUTHORIZED", "")
  ELSE IF e.code = "23503" \/ "foreign key" \in e.message
    THEN createApiError("NOT_FOUND", "Referenced item not found")
  ELSE IF e.code = "23505" \/ "duplicate" \in e.message THEN createApiError("DUPLICATE_ENTRY", "")
  ELSE IF "network" \in e.message \/ "fetch" \in e.message
    THEN createApiError("NETWORK_ERROR", "")
  ELSE createApiError("SERVER_ERROR", "Something went wrong. Please try again later.")

\* handleApiOperation that lets an error that is not an AppError go (no
\* envelope is returned).
handleApiOperation_rethrow(o) ==
  IF ~o.threw THEN createSuccessResponse(o.data)
  ELSE IF o.error.kind = "AppError"
    THEN createErrorResponse([code |-> o.error.code, userMessage |-> o.error.userMessage])
  ELSE NoResponse

\* try { return createSuccessResponse(await operation()) } catch (error) {...}
handleApiOperation(o) ==
  IF ~o.threw THEN createSuccessResponse(o.data)
  ELSE IF o.error.kind = "AppError"
    THEN createErrorResponse([code |-> o.error.code, userMessage |-> o.error.userMessage])
  ELSE createErrorResponse(mapSupabaseError(o.error))

\* ------------------------------------------------------- backend queries
\* .single() on a query matching n rows: the row when n = 1, otherwise
\* data = null and error PGRST116 (no row, or more than one).
single(n) == IF n = 1 THEN [data |-> TRUE, error |-> NoError]
                      ELSE [data |-> FALSE, error |-> PGRST116]

\* ------------------------------------------------------------ call slots
\* hadRow is history: a joinRide call was issued for a pair that held a row.
IdleCall == [op |-> "idle", pc |-> "idle", caller |-> NoUser, target |-> NoUser,
             rideId |-> NoRideId, result |-> NoResponse, hadRow |-> FALSE]

Free(c) == calls[c].pc \in {"idle", "done"}

\* A call that has passed getUser and waits for its first table request.
Begin(c, op, pc, caller, target, rideId) ==
  calls' = [calls EXCEPT ![c] = [op |-> op, pc |-> pc, caller |-> caller, target |-> target,
                                 rideId |-> rideId, result |-> NoResponse,
                                 hadRow |-> op = "joinRide" /\ participants[<<rideId, target>>] > 0]]

\* A call rejected right after getUser.
Reject(c, op, rideId, code) ==
  calls' = [calls EXCEPT ![c] = [op |-> op, pc |-> "done", caller |-> NoUser, target |-> NoUser,
                                 rideId |-> rideId,
                                 result |-> handleApiOperation(Threw(AppError(code, SiteMessage))),
                                 hadRow |-> FALSE]]

\* The operation returns or throws: handleApiOperation builds the envelope.
Finish(c, o) ==
  calls' = [calls EXCEPT ![c].pc = "done", ![c].result = handleApiOperation(o)]

Goto(c, pc) == calls' = [calls EXCEPT ![c].pc = pc]

\* Join calls in flight for the pair (rideId, user).
JoinsInFlight(rideId, user) ==
  Cardinality({c \in Calls : /\ calls[c].op = "joinRide" /\ calls[c].pc # "done"
                             /\ calls[c].rideId = rideId /\ calls[c].target = user})

CreatesInFlight ==
  Cardinality({c \in Calls : calls[c].op = "createRide" /\ calls[c].pc # "done"})

\* ------------------------------------------------------- round-trip history
\* trip follows one joinRide / leaveRide round trip of a pair:
\*   "joined"  a joinRide call inserted the pair's row into a table that held
\*             no row for the pair (before = the table before the insert);
\*   "leaving" a leaveRide call for the pair was then issued (call; late =
\*             the ride was by then no longer open, or had started);
\*   "left"    that call has returned.
\* The trip is dropped when another call writes the participation table or
\* deletes the ride in between; clock ticks and updateRide do not drop it.
NoCall == "none"
NoTrip == [stage |-> "none", rideId |-> NoRideId, user |-> NoUser, call |-> NoCall,
           before |-> [p \in RideIds \X Users |-> 0], late |-> FALSE]

JoinedFresh(c) ==
  /\ calls[c].op = "joinRide" /\ calls[c].pc = "insert"
  /\ calls'[c].pc = "done" /\ calls'[c].result.success
  /\ participants[<<calls[c].rideId, calls[c].target>>] = 0

LeaveIssued(c) ==
  /\ trip.stage = "joined"
  /\ Free(c)
  /\ calls'[c].op = "leaveRide" /\ calls'[c].pc = "fetch"
  /\ calls'[c].rideId = trip.rideId /\ calls'[c].target = trip.user

Observe ==
  trip' =
    IF \E c \in Calls : JoinedFresh(c)
      THEN LET c == CHOOSE d \in Calls : JoinedFresh(d) IN
           [stage |-> "joined", rideId |-> calls[c].rideId, user |-> calls[c].target,
            call |-> NoCall, before |-> participants, late |-> FALSE]
    ELSE IF \E c \in Calls : LeaveIssued(c)
      THEN [trip EXCEPT !.stage = "leaving", !.call = CHOOSE d \in Calls : LeaveIssued(d),
                        !.late = \/ rides[trip.rideId].status # "open"
                                 \/ rides[trip.rideId].start_time <= now]
    ELSE IF trip.stage = "leaving" /\ calls'[trip.call].pc = "done"
      THEN [trip EXCEPT !.stage = "left"]
    ELSE IF trip.stage \in {"joined", "leaving"}
            /\ (participants' # participants \/ rides'[trip.rideId] = NoRide)
      THEN NoTrip
    ELSE IF trip.stage = "left"
            /\ (participants' # participants \/ calls'[trip.call] # calls[trip.call])
      THEN NoTrip
    ELSE trip

\* ---------------------------------------------------- dashboard vocabulary
\* addMinutes(startTime, 30), in seconds.
ExpiryWindow == 1800
\* The slot of calls the card's API calls use, and the signed-in viewer.
CardSlot == "c1"
\* A preset other than 'now' stands for lunch, afternoon and custom.
Presets == {"now", "lunch"}

\* timeLeft: null, `${minutes}:${seconds}`, or "Expired".
NoTimeLeft == [state |-> "none", minutes |-> 0, seconds |-> 0]
Expired == [state |-> "expired", minutes |-> 0, seconds |-> 0]

\* History of the last join/leave press: the action, how its call ended,
\* the flag and the list entry before the press, the parent notifications,
\* and whether a further press came while its call was in flight (ignored).
NoPress == [action |-> "none", outcome |-> "none", flagBefore |-> FALSE,
            listBefore |-> FALSE, notified |-> 0, notifiedAction |-> "none",
            ignored |-> FALSE]
\* History of the last handleRemove: manual or auto, and how its call ended.
NoRemove == [kind |-> "none", outcome |-> "none"]

\* A card that is not rendered. intervals lists the interval timers of the
\* card that are set and not cleared, each with what its updateTimer closes
\* over (the ride and userId props and isDeleting of the render that set it).
NoCard == [mounted |-> FALSE, isDeleting |-> FALSE, isJoining |-> FALSE,
           optimisticHasJoined |-> FALSE, timeLeft |-> NoTimeLeft, intervals |-> <<>>,
           request |-> "none", pending |-> "none",
           originalHasJoined |-> FALSE, isAutoDelete |-> FALSE,
           lastPress |-> NoPress, lastRemove |-> NoRemove]
\* The props of a listed ride the card reads.
NoRideProps == [id |-> NoRideId, creator_id |-> NoUser, preset |-> "none", start_time |-> 0]
\* A page that is not loaded.
NoPage == [userId |-> NoUser, profile |-> FALSE, listed |-> FALSE, joined |-> FALSE,
           ride |-> NoRideProps]

\* A handleApiOperation call not yet made.
NoWrapped == [pc |-> "idle", operation |-> Returned(Null), response |-> NoResponse]
\* No getTimeRangeForPreset call: the drawer is not open.
\* moved is history: an updateRide call has changed the start_time of the
\* ride the drawer created.
NoDrawer == [pc |-> "closed", clock |-> 0, preset |-> "now", now |-> 0, startDate |-> 0,
             endDate |-> 0, comparedAt |-> 0, moved |-> FALSE]
\* No join/leave call followed for its caller.
NoActor == [c \in Calls |-> [caller |-> NoUser, userId |-> NoUser]]
\* The profile fields the hook keeps (firstName and avatarUrl stand for the
\* five fields, which the hook treats alike), their values, and the mark
\* of a key that is absent from an event's payload.new.
ProfileFields == {"firstName", "avatarUrl"}
FieldValues == {"a", "b", Null}
Absent == "absent"
\* profile: null
NoProfile == [f \in ProfileFields |-> "no profile"]
NoPayload == [f \in ProfileFields |-> Absent]
\* No profile hook mounted.
NoHook == [pc |-> "none", mounted |-> FALSE, profile |-> NoProfile, closed |-> NoProfile,
           channel |-> FALSE, subscriptions |-> 0, payload |-> NoPayload, events |-> 0]
\* No request at the gate.
NoGate == [pc |-> "idle", pathname |-> <<>>, user |-> NoUser,
           profile |-> [error |-> FALSE, data |-> "not fetched"],
           response |-> [kind |-> "none"], redirects |-> 0]

\* ------------------------------------------------------------ getAllRides
\* A getAllRides call: pc, the rows the query returned (data), the user
\* getUser returned (currentUserId, NoUser for undefined) and the list it
\* returns (result: ride id -> the computed fields).
NoDetails == [listed |-> FALSE, participant_count |-> 0,
              is_creator |-> FALSE, is_participant |-> FALSE]
NoData == [rides |-> [r \in RideIds |-> NoRide], participants |-> [p \in RideIds \X Users |-> 0]]
NoQuery == [pc |-> "idle", data |-> NoData, currentUserId |-> NoUser,
            result |-> [r \in RideIds |-> NoDetails]]

\* ride.participants?.length: the rows of the ride.
RECURSIVE participant_count(_, _, _)
participant_count(p, id, us) ==
  IF us = {} THEN 0
  ELSE LET u == CHOOSE v \in us : TRUE IN p[<<id, u>>] + participant_count(p, id, us \ {u})

\* rideWithDetails whose is_participant is "the ride has a participant".
rideWithDetails_anyParticipant(data, id, currentUserId) ==
  [listed            |-> TRUE,
   participant_count |-> participant_count(data.participants, id, Users),
   is_creator        |-> currentUserId = data.rides[id].creator_id,
   is_participant    |-> participant_count(data.participants, id, Users) > 0]

\* The element getAllRides maps a returned ride to.
rideWithDetails(data, id, currentUserId) ==
  [listed            |-> TRUE,
   participant_count |-> participant_count(data.participants, id, Users),
   is_creator        |-> currentUserId = data.rides[id].creator_id,
   is_participant    |-> IF currentUserId # NoUser
                           THEN data.participants[<<id, currentUserId>>] > 0
                           ELSE FALSE]

\* const { data, error } = await query
getAllRides_query ==
  /\ query.pc = "idle"
  /\ query' = [query EXCEPT !.pc = "getUser",
                            !.data = [rides |-> rides, participants |-> participants]]
  /\ UNCHANGED <<backendVars, wrapped, card, page, drawer, gate, actor, hook>>

\* const { data: { user } } = await supabase.auth.getUser(); the map
getAllRides_getUser(user) ==
  /\ query.pc = "getUser"
  /\ query' = [query EXCEPT
       !.pc = "done",
       !.currentUserId = user,
       !.result = [r \in RideIds |->
                     IF query.data.rides[r] = NoRide THEN NoDetails
                     ELSE rideWithDetails(query.data, r, user)]]
  /\ UNCHANGED <<backendVars, wrapped, card, page, drawer, gate, actor, hook>>

\* The tables a getAllRides call can find: any ride rows, the creator of a
\* ride without a row for it, no rows for a ride that does not exist.
TableStates ==
  {t \in [rides : [RideIds -> RideRows \cup {NoRide}],
          participants : [RideIds \X Users -> 0..MaxRows]] :
     \A r \in RideIds :
       IF t.rides[r] = NoRide
         THEN \A u \in Users : t.participants[<<r, u>>] = 0
         ELSE t.participants[<<r, t.rides[r].creator_id>>] = 0}

InitQuery ==
  /\ now = 0
  /\ usedIds = {}
  /\ calls = [c \in Calls |-> IdleCall]
  /\ trip = NoTrip
  /\ query = NoQuery
  /\ actor = NoActor
  /\ hook = NoHook
  /\ drawer = NoDrawer
  /\ gate = NoGate
  /\ wrapped = NoWrapped
  /\ card = NoCard
  /\ page = NoPage
  /\ \E t \in TableStates : rides = t.rides /\ participants = t.participants

NextQuery ==
  \/ getAllRides_query
  \/ \E user \in Users \cup {NoUser} : getAllRides_getUser(user)

SpecQuery == InitQuery /\ [][NextQuery]_vars

\* ----------------------------------------------- handleApiOperation alone
\* The operations handleApiOperation may be given: one that returns data,
\* one that throws an AppError (any code, any user message), one that throws
\* a backend error (a code or none, a message with one of the phrases or none).
UserMessages == {SiteMessage, "Please log in to join a ride."}
BackendCodes == {"", "PGRST116", "23503", "23505"}
Messages == {{}} \cup {{p} : p \in Phrases}
Operations ==
  {Returned(d) : d \in {Row, Null}}
    \cup {Threw(AppError(code, m)) : code \in ApiErrorCode, m \in UserMessages}
    \cup {Threw(BackendError(code, msg)) : code \in BackendCodes, msg \in Messages}

\* The call resolves with the envelope.
handleApiOperation_resolve ==
  /\ wrapped.pc = "pending"
  /\ wrapped' = [wrapped EXCEPT !.pc = "resolved",
                                !.response = handleApiOperation(wrapped.operation)]
  /\ UNCHANGED <<backendVars, query, card, page, drawer, gate, actor, hook>>

InitEnvelope ==
  /\ now = 0
  /\ rides = [r \in RideIds |-> NoRide]
  /\ usedIds = {}
  /\ participants = [p \in RideIds \X Users |-> 0]
  /\ calls = [c \in Calls |-> IdleCall]
  /\ trip = NoTrip
  /\ query = NoQuery
  /\ actor = NoActor
  /\ hook = NoHook
  /\ drawer = NoDrawer
  /\ gate = NoGate
  /\ card = NoCard
  /\ page = NoPage
  /\ \E o \in Operations : wrapped = [pc |-> "pending", operation |-> o, response |-> NoResponse]

NextEnvelope == handleApiOperation_resolve

SpecEnvelope == InitEnvelope /\ [][NextEnvelope]_vars

\* ------------------------------------------------------------------ Init
Init ==
  /\ now = 0
  /\ rides = [r \in RideIds |-> NoRide]
  /\ usedIds = {}
  /\ participants = [p \in RideIds \X Users |-> 0]
  /\ calls = [c \in Calls |-> IdleCall]
  /\ trip = NoTrip
  /\ query = NoQuery
  /\ actor = NoActor
  /\ hook = NoHook
  /\ drawer = NoDrawer
  /\ gate = NoGate
  /\ wrapped = NoWrapped
  /\ card = NoCard
  /\ page = NoPage

\* -------------------------------------------------------------- joinRide
\* joinRideChecks without the "own ride" check.
joinRideChecks_noCreatorCheck(ride, t, participantUserId) ==
  IF ride = NoRide THEN "NOT_FOUND"
  ELSE IF ride.status # "open" THEN "RIDE_EXPIRED"
  ELSE IF ride.start_time <= t THEN "RIDE_EXPIRED"
  ELSE "pass"

\* joinRideChecks without the status check.
joinRideChecks_noStatusCheck(ride, t, participantUserId) ==
  IF ride = NoRide THEN "NOT_FOUND"
  ELSE IF ride.start_time <= t THEN "RIDE_EXPIRED"
  ELSE IF ride.creator_id = participantUserId THEN "ALREADY_PARTICIPANT"
  ELSE "pass"

\* joinRideChecks that lets a ride starting right now be joined (< for <=).
joinRideChecks_strictlyBefore(ride, t, participantUserId) ==
  IF ride = NoRide THEN "NOT_FOUND"
  ELSE IF ride.status # "open" THEN "RIDE_EXPIRED"
  ELSE IF ride.start_time < t THEN "RIDE_EXPIRED"
  ELSE IF ride.creator_id = participantUserId THEN "ALREADY_PARTICIPANT"
  ELSE "pass"

\* The synchronous checks of joinRide on the fetched ride row; "pass" when
\* none throws.
joinRideChecks(ride, t, participantUserId) ==
  IF ride = NoRide THEN "NOT_FOUND"
  ELSE IF ride.status # "open" THEN "RIDE_EXPIRED"
  ELSE IF ride.start_time <= t THEN "RIDE_EXPIRED"
  ELSE IF ride.creator_id = participantUserId THEN "ALREADY_PARTICIPANT"
  ELSE "pass"

\* existingParticipation of joinRide: the data of .single() on the rows of
\* the pair (checkError PGRST116 is not thrown).
existingParticipation(n) == single(n).data

\* participantUserIdOf that is always the authenticated caller.
participantUserIdOf_callerOnly(userId, user) == user

\* participantUserId = userId || user.id
participantUserIdOf(userId, user) == IF userId # NoUser THEN userId ELSE user

\* await supabase.auth.getUser(); participantUserId = userId || user.id
joinRide_getUser(c, caller, rideId, userId) ==
  /\ Free(c)
  /\ UNCHANGED <<now, rides, usedIds, participants>>
  /\ IF caller = NoUser
       THEN Reject(c, "joinRide", rideId, "UNAUTHORIZED")
       ELSE LET target == participantUserIdOf(userId, caller) IN
            /\ participants[<<rideId, target>>] + JoinsInFlight(rideId, target) < MaxRows
            /\ Begin(c, "joinRide", "fetch", NoUser, target, rideId)

\* await rides.select(...).eq('id', rideId).single(), then the checks
joinRide_fetchRide(c) ==
  /\ calls[c].op = "joinRide" /\ calls[c].pc = "fetch"
  /\ UNCHANGED <<now, rides, usedIds, participants>>
  /\ LET verdict == joinRideChecks(rides[calls[c].rideId], now, calls[c].target) IN
     IF verdict = "pass" THEN Goto(c, "check")
     ELSE Finish(c, Threw(AppError(verdict, SiteMessage)))

\* await ride_participants.select('*').eq(ride_id).eq(user_id).single()
joinRide_checkExisting(c) ==
  /\ calls[c].op = "joinRide" /\ calls[c].pc = "check"
  /\ UNCHANGED <<now, rides, usedIds, participants>>
  /\ IF existingParticipation(participants[<<calls[c].rideId, calls[c].target>>])
       THEN Finish(c, Threw(AppError("ALREADY_PARTICIPANT", SiteMessage)))
       ELSE Goto(c, "insert")

\* await ride_participants.insert({ride_id, user_id, created_at})
joinRide_insert(c) ==
  /\ calls[c].op = "joinRide" /\ calls[c].pc = "insert"
  /\ UNCHANGED <<now, rides, usedIds>>
  /\ IF rides[calls[c].rideId] = NoRide
       THEN /\ UNCHANGED participants
            /\ Finish(c, Threw(FKViolation))
       ELSE /\ participants' = [participants EXCEPT ![<<calls[c].rideId, calls[c].target>>] = @ + 1]
            /\ Finish(c, Returned(Row))

\* ------------------------------------------------------------- leaveRide
\* leaveRideChecks without the "own ride" check.
leaveRideChecks_noCreatorCheck(ride, participantUserId) ==
  IF ride = NoRide THEN "NOT_FOUND"
  ELSE "pass"

\* leaveRideChecks that also refuses a ride that is no longer open, as
\* joinRide does.
leaveRideChecks_openOnly(ride, participantUserId) ==
  IF ride = NoRide THEN "NOT_FOUND"
  ELSE IF ride.status # "open" THEN "RIDE_EXPIRED"
  ELSE IF ride.creator_id = participantUserId THEN "CANNOT_LEAVE_OWN_RIDE"
  ELSE "pass"

\* The synchronous checks of leaveRide on the fetched ride row.
leaveRideChecks(ride, participantUserId) ==
  IF ride = NoRide THEN "NOT_FOUND"
  ELSE IF ride.creator_id = participantUserId THEN "CANNOT_LEAVE_OWN_RIDE"
  ELSE "pass"

\* leaveRideCheckError that ignores the membership check.
leaveRideCheckError_ignored(n) == NoError

\* checkError of leaveRide: the error of .single() on the rows of the pair.
leaveRideCheckError(n) == single(n).error

\* await supabase.auth.getUser(); participantUserId = userId || user.id
leaveRide_getUser(c, caller, rideId, userId) ==
  /\ Free(c)
  /\ UNCHANGED <<now, rides, usedIds, participants>>
  /\ IF caller = NoUser
       THEN Reject(c, "leaveRide", rideId, "UNAUTHORIZED")
       ELSE Begin(c, "leaveRide", "fetch", NoUser, participantUserIdOf(userId, caller), rideId)

\* await rides.select(...).eq('id', rideId).single(), then the creator check
leaveRide_fetchRide(c) ==
  /\ calls[c].op = "leaveRide" /\ calls[c].pc = "fetch"
  /\ UNCHANGED <<now, rides, usedIds, participants>>
  /\ LET verdict == leaveRideChecks(rides[calls[c].rideId], calls[c].target) IN
     IF verdict = "pass" THEN Goto(c, "check")
     ELSE Finish(c, Threw(AppError(verdict, SiteMessage)))

\* await ride_participants.select('*').eq(ride_id).eq(user_id).single()
leaveRide_checkParticipant(c) ==
  /\ calls[c].op = "leaveRide" /\ calls[c].pc = "check"
  /\ UNCHANGED <<now, rides, usedIds, participants>>
  /\ LET checkError == leaveRideCheckError(participants[<<calls[c].rideId, calls[c].target>>]) IN
     IF checkError # NoError
       THEN IF checkError.code = "PGRST116"
              THEN Finish(c, Threw(AppError("NOT_PARTICIPANT", SiteMessage)))
              ELSE Finish(c, Threw(checkError))
       ELSE Goto(c, "delete")

\* The rows left by ride_participants.delete().eq(ride_id).eq(user_id).
deleteParticipation(p, rideId, userId) == [p EXCEPT ![<<rideId, userId>>] = 0]

\* await ride_participants.delete().eq('ride_id', ..).eq('user_id', ..)
leaveRide_delete(c) ==
  /\ calls[c].op = "leaveRide" /\ calls[c].pc = "delete"
  /\ UNCHANGED <<now, rides, usedIds>>
  /\ participants' = deleteParticipation(participants, calls[c].rideId, calls[c].target)
  /\ Finish(c, Returned(Null))

\* ------------------------------------------------------------ createRide
\* createRideRow with the input spread after the fixed columns, so that a
\* creator_id or status carried by the input wins.
createRideRow_inputWins(rideData, userId) ==
  [creator_id |-> IF rideData.creator_id # NoUser THEN rideData.creator_id ELSE userId,
   status     |-> IF rideData.status # KeepStatus THEN rideData.status ELSE "open",
   start_time |-> rideData.start_time]

\* The row createRide inserts: {...rideData, creator_id: user.id, status: 'open'}.
\* The input is spread first; creator_id and status are written after it.
createRideRow(rideData, userId) ==
  LET spread == [creator_id |-> rideData.creator_id, status |-> rideData.status,
                 start_time |-> rideData.start_time]
  IN  [spread EXCEPT !.creator_id = userId, !.status = "open"]

\* await supabase.auth.getUser()
createRide_getUser(c, caller) ==
  /\ Free(c)
  /\ UNCHANGED <<now, rides, usedIds, participants>>
  /\ IF caller = NoUser
       THEN Reject(c, "createRide", NoRideId, "UNAUTHORIZED")
       ELSE /\ Cardinality(usedIds) + CreatesInFlight < Cardinality(RideIds)
            /\ Begin(c, "createRide", "insert", caller, NoUser, NoRideId)

\* await rides.insert({...}).select().single()
createRide_insert(c, rideData) ==
  /\ calls[c].op = "createRide" /\ calls[c].pc = "insert"
  /\ UNCHANGED <<now, participants>>
  /\ \E id \in RideIds \ usedIds :
       /\ rides' = [rides EXCEPT ![id] = createRideRow(rideData, calls[c].caller)]
       /\ usedIds' = usedIds \cup {id}
       /\ calls' = [calls EXCEPT ![c].pc = "done", ![c].rideId = id,
                                 ![c].result = handleApiOperation(Returned(Row))]

\* ------------------------------------------------- updateRide, deleteRide
\* creatorChecks without the creator comparison.
creatorChecks_noCreatorCheck(existingRide, userId) ==
  IF existingRide = NoRide THEN "NOT_FOUND"
  ELSE "pass"

\* The check both functions make on the fetched row (existingRide).
creatorChecks(existingRide, userId) ==
  IF existingRide = NoRide THEN "NOT_FOUND"
  ELSE IF existingRide.creator_id # userId THEN "UNAUTHORIZED"
  ELSE "pass"

\* The row after rides.update({...updates, updated_at}).
applyUpdates(row, updates) ==
  [creator_id |-> row.creator_id,
   status |-> IF updates.status = KeepStatus THEN row.status ELSE updates.status,
   start_time |-> IF updates.start_time = KeepTime THEN row.start_time ELSE updates.start_time]

\* await supabase.auth.getUser()
updateRide_getUser(c, caller, id) ==
  /\ Free(c)
  /\ UNCHANGED <<now, rides, usedIds, participants>>
  /\ IF caller = NoUser
       THEN Reject(c, "updateRide", id, "UNAUTHORIZED")
       ELSE Begin(c, "updateRide", "fetch", caller, NoUser, id)

\* await rides.select('creator_id').eq('id', id).single(), then the check
updateRide_fetchRide(c) ==
  /\ calls[c].op = "updateRide" /\ calls[c].pc = "fetch"
  /\ UNCHANGED <<now, rides, usedIds, participants>>
  /\ LET verdict == creatorChecks(rides[calls[c].rideId], calls[c].caller) IN
     IF verdict = "pass" THEN Goto(c, "write")
     ELSE Finish(c, Threw(AppError(verdict, SiteMessage)))

\* await rides.update({...}).eq('id', id).select().single()
updateRide_update(c, updates) ==
  /\ calls[c].op = "updateRide" /\ calls[c].pc = "write"
  /\ UNCHANGED <<now, usedIds, participants>>
  /\ IF rides[calls[c].rideId] = NoRide
       THEN /\ UNCHANGED rides
            /\ Finish(c, Threw(single(0).error))
       ELSE /\ rides' = [rides EXCEPT ![calls[c].rideId] = applyUpdates(@, updates)]
            /\ Finish(c, Returned(Row))

\* await supabase.auth.getUser()
deleteRide_getUser(c, caller, id) ==
  /\ Free(c)
  /\ UNCHANGED <<now, rides, usedIds, participants>>
  /\ IF caller = NoUser
       THEN Reject(c, "deleteRide", id, "UNAUTHORIZED")
       ELSE Begin(c, "deleteRide", "fetch", caller, NoUser, id)

\* await rides.select('creator_id').eq('id', id).single(), then the check
deleteRide_fetchRide(c) ==
  /\ calls[c].op = "deleteRide" /\ calls[c].pc = "fetch"
  /\ UNCHANGED <<now, rides, usedIds, participants>>
  /\ LET verdict == creatorChecks(rides[calls[c].rideId], calls[c].caller) IN
     IF verdict = "pass" THEN Goto(c, "write")
     ELSE Finish(c, Threw(AppError(verdict, SiteMessage)))

\* The participation rows left when the backend deletes ride id (the
\* foreign key of ride_participants.ride_id cascades).
cascadeParticipants(p, id) == [q \in RideIds \X Users |-> IF q[1] = id THEN 0 ELSE p[q]]

\* await rides.delete().eq('id', id)
deleteRide_delete(c) ==
  /\ calls[c].op = "deleteRide" /\ calls[c].pc = "write"
  /\ UNCHANGED <<now, usedIds>>
  /\ rides' = [rides EXCEPT ![calls[c].rideId] = NoRide]
  /\ participants' = cascadeParticipants(participants, calls[c].rideId)
  /\ Finish(c, Returned(Null))

\* ------------------------------------------------------------------ clock
Tick ==
  /\ now < MaxTime
  /\ now' = now + 1
  /\ UNCHANGED <<rides, usedIds, participants, calls>>

Next ==
  \/ \E c \in Calls, caller \in Users \cup {NoUser}, rideId \in RideIds, userId \in Users \cup {NoUser} :
       joinRide_getUser(c, caller, rideId, userId) /\ Observe /\ UNCHANGED others
  \/ \E c \in Calls : joinRide_fetchRide(c) /\ Observe /\ UNCHANGED others
  \/ \E c \in Calls : joinRide_checkExisting(c) /\ Observe /\ UNCHANGED others
  \/ \E c \in Calls : joinRide_insert(c) /\ Observe /\ UNCHANGED others
  \/ \E c \in Calls, caller \in Users \cup {NoUser}, rideId \in RideIds, userId \in Users \cup {NoUser} :
       leaveRide_getUser(c, caller, rideId, userId) /\ Observe /\ UNCHANGED others
  \/ \E c \in Calls : leaveRide_fetchRide(c) /\ Observe /\ UNCHANGED others
  \/ \E c \in Calls : leaveRide_checkParticipant(c) /\ Observe /\ UNCHANGED others
  \/ \E c \in Calls : leaveRide_delete(c) /\ Observe /\ UNCHANGED others
  \/ \E c \in Calls, caller \in Users \cup {NoUser} : createRide_getUser(c, caller) /\ Observe /\ UNCHANGED others
  \/ \E c \in Calls, rideData \in CreateRideInput : createRide_insert(c, rideData) /\ Observe /\ UNCHANGED others
  \/ \E c \in Calls, caller \in Users \cup {NoUser}, id \in RideIds :
       updateRide_getUser(c, caller, id) /\ Observe /\ UNCHANGED others
  \/ \E c \in Calls : updateRide_fetchRide(c) /\ Observe /\ UNCHANGED others
  \/ \E c \in Calls, updates \in UpdateRideInput : updateRide_update(c, updates) /\ Observe /\ UNCHANGED others
  \/ \E c \in Calls, caller \in Users \cup {NoUser}, id \in RideIds :
       deleteRide_getUser(c, caller, id) /\ Observe /\ UNCHANGED others
  \/ \E c \in Calls : deleteRide_fetchRide(c) /\ Observe /\ UNCHANGED others
  \/ \E c \in Calls : deleteRide_delete(c) /\ Observe /\ UNCHANGED others
  \/ Tick /\ Observe /\ UNCHANGED others

Spec == Init /\ [][Next]_vars

\* ====================================================================
\* The dashboard: one RideCard and the page container
\* ====================================================================
\* The signed-in viewer (user.id of the page, userId of the card) and the
\* ride the card shows.
Viewer == "u1"
CardRide == "r1"
\* A start time later than every instant the dashboard is followed to.
FarStart == ExpiryWindow + MaxTime + 1

isCreator(p) == p.ride.creator_id = p.userId

\* updateTimer that still counts when no second remains.
updateTimer_inclusive(ride, t) ==
  LET secondsRemaining == (ride.start_time + ExpiryWindow) - t IN
  IF secondsRemaining >= 0
    THEN [state |-> "counting", minutes |-> secondsRemaining \div 60,
          seconds |-> secondsRemaining % 60]
    ELSE Expired

\* updateTimer: the timeLeft it sets at instant t (seconds).
updateTimer(ride, t) ==
  LET secondsRemaining == (ride.start_time + ExpiryWindow) - t IN
  IF secondsRemaining > 0
    THEN [state |-> "counting", minutes |-> secondsRemaining \div 60,
          seconds |-> secondsRemaining % 60]
    ELSE Expired

\* updateTimer reaches handleRemove(true): expired, viewer is the creator,
\* and isDeleting is false.
removeDue(k, p, t) ==
  /\ p.ride.preset = "now"
  /\ updateTimer(p.ride, t) = Expired
  /\ isCreator(p)
  /\ ~k.isDeleting

\* What updateTimer closes over in the render of card k with props p.
closure(k, p) == [ride |-> p.ride, userId |-> p.userId, isDeleting |-> k.isDeleting]

\* A cleanup that leaves the interval set.
cleanup_leak(k) == k

\* The cleanup of the countdown effect: clearInterval of the interval the
\* last run of the effect set (the last one of intervals), if any.
cleanup(k) ==
  [k EXCEPT !.intervals = IF @ = <<>> THEN @ ELSE SubSeq(@, 1, Len(@) - 1)]

\* The countdown effect without the call of handleRemove: the cleanup of the
\* previous run, then the first updateTimer() and setInterval, or
\* setTimeLeft(null).
timerEffect(k, p, t) ==
  LET k0 == cleanup(k) IN
  IF p.ride.preset # "now"
    THEN [k0 EXCEPT !.timeLeft = NoTimeLeft]
    ELSE [k0 EXCEPT !.timeLeft = updateTimer(p.ride, t),
                    !.intervals = Append(@, closure(k0, p))]

\* handleRemove up to its await: setIsDeleting(true), deleteRide(ride.id)
\* called; isDeleting changed, so the countdown effect runs again.
handleRemove(k, p, t, isAutoDelete) ==
  timerEffect([k EXCEPT !.isDeleting = TRUE,
                        !.isAutoDelete = isAutoDelete,
                        !.request = "deleteRide",
                        !.pending = "handleRemove",
                        !.lastRemove = [kind |-> IF isAutoDelete THEN "auto" ELSE "manual",
                                        outcome |-> "pending"]],
              p, t)

\* The countdown effect (on mount, and when isDeleting changes).
countdownEffect(k, p, t) ==
  IF removeDue(k, p, t) THEN handleRemove(timerEffect(k, p, t), p, t, TRUE)
  ELSE timerEffect(k, p, t)

\* updateTimer of closure cl reaches handleRemove(true) at instant t.
callbackDue(cl, t) ==
  /\ updateTimer(cl.ride, t) = Expired
  /\ cl.ride.creator_id = cl.userId
  /\ ~cl.isDeleting

\* A second has passed: every interval that is set calls its updateTimer.
\* An unmounted card ignores setTimeLeft; an interval that finds its ride
\* expired clears itself.
intervalTick(k, p, t) ==
  LET fired == k.intervals
      newest == fired[Len(fired)]
      k1 == [k EXCEPT
               !.timeLeft = IF k.mounted THEN updateTimer(newest.ride, t) ELSE @,
               !.intervals = SelectSeq(fired, LAMBDA cl : updateTimer(cl.ride, t) # Expired)]
  IN  IF \E i \in 1..Len(fired) : callbackDue(fired[i], t)
        THEN handleRemove(k1, p, t, TRUE) ELSE k1

\* The card is torn down: the cleanup runs. The fields keep what the card
\* last showed.
unmount(k) == [cleanup(k) EXCEPT !.mounted = FALSE]

\* updateRideParticipants replaces the participant list of the ride.
listReplaced(p, rideId) == p.listed /\ p.ride.id = rideId /\ p.userId # NoUser /\ p.profile

\* updateRideParticipants(rideId, action): joined is whether currentUserId is
\* in ride_participants of the listed ride.
updateRideParticipants(p, rideId, action) ==
  IF listReplaced(p, rideId) THEN [p EXCEPT !.joined = (action = "join")] ELSE p

\* removeRideFromList(rideId)
removeRideFromList(p, rideId) ==
  IF p.ride.id = rideId THEN [p EXCEPT !.listed = FALSE, !.joined = FALSE] ELSE p

\* The effect that syncs optimisticHasJoined runs when ride.ride_participants
\* is a new array.
syncEffect(k, p, q, rideId) ==
  IF listReplaced(p, rideId) THEN [k EXCEPT !.optimisticHasJoined = q.joined] ELSE k

\* The failure branch of handleJoinLeave without the revert.
handleJoinLeave_failure_noRevert(k) == k

\* The failure branch of handleJoinLeave: setOptimisticHasJoined(originalHasJoined).
handleJoinLeave_failure(k) == [k EXCEPT !.optimisticHasJoined = k.originalHasJoined]

\* The card is rendered: useState initial values, then the effects. A card
\* rendered again after a teardown is a new instance; it is followed once no
\* handler of the previous instance is suspended. The histories and the
\* intervals still set are carried over.
RideCard_mount ==
  /\ ~card.mounted /\ page.listed
  /\ card.pending = "none" /\ card.request = "none"
  /\ card' = countdownEffect([NoCard EXCEPT !.mounted = TRUE,
                                            !.optimisticHasJoined = page.joined,
                                            !.intervals = card.intervals,
                                            !.lastPress = card.lastPress,
                                            !.lastRemove = card.lastRemove], page, now)
  /\ UNCHANGED <<backendVars, query, wrapped, page, drawer, gate, actor, hook>>

\* A second passes; the intervals that are set call updateTimer.
CardTick ==
  /\ now < ExpiryWindow + MaxTime
  /\ now' = now + 1
  /\ card' = IF card.intervals # <<>> THEN intervalTick(card, page, now') ELSE card
  /\ UNCHANGED <<rides, usedIds, participants, calls, trip, query, wrapped, page, drawer, gate, actor, hook>>

\* The viewer presses Remove: handleRemove(false).
handleRemove_press ==
  /\ card.mounted /\ isCreator(page) /\ ~card.isDeleting
  /\ card' = handleRemove(card, page, now, FALSE)
  /\ UNCHANGED <<backendVars, query, wrapped, page, drawer, gate, actor, hook>>

\* handleJoinLeave without its guard on isJoining.
handleJoinLeave_noGuard(k, p) ==
  LET originalHasJoined == k.optimisticHasJoined IN
  [k EXCEPT
     !.isJoining = TRUE,
     !.optimisticHasJoined = ~originalHasJoined,
     !.originalHasJoined = originalHasJoined,
     !.request = IF originalHasJoined THEN "leaveRide" ELSE "joinRide",
     !.pending = "handleJoinLeave",
     !.lastPress = [action |-> IF originalHasJoined THEN "leave" ELSE "join",
                    outcome |-> "pending", flagBefore |-> originalHasJoined,
                    listBefore |-> p.joined, notified |-> 0,
                    notifiedAction |-> "none", ignored |-> FALSE]]

\* handleJoinLeave up to its await; it returns at once for the creator and
\* while isJoining.
handleJoinLeave(k, p) ==
  IF isCreator(p) \/ k.isJoining THEN [k EXCEPT !.lastPress.ignored = TRUE]
  ELSE LET originalHasJoined == k.optimisticHasJoined IN
       [k EXCEPT
          !.isJoining = TRUE,
          !.optimisticHasJoined = ~originalHasJoined,
          !.originalHasJoined = originalHasJoined,
          !.request = IF originalHasJoined THEN "leaveRide" ELSE "joinRide",
          !.pending = "handleJoinLeave",
          !.lastPress = [action |-> IF originalHasJoined THEN "leave" ELSE "join",
                         outcome |-> "pending", flagBefore |-> originalHasJoined,
                         listBefore |-> p.joined, notified |-> 0,
                         notifiedAction |-> "none", ignored |-> FALSE]]

\* The viewer presses the Join / Leave button, which the card renders for a
\* viewer who is not the creator.
handleJoinLeave_press ==
  /\ card.mounted /\ ~isCreator(page)
  /\ card' = handleJoinLeave(card, page)
  /\ UNCHANGED <<backendVars, query, wrapped, page, drawer, gate, actor, hook>>

\* The API function the card called runs to its first await (getUser); the
\* viewer's session is the one the page was loaded with.
RideCard_getUser ==
  /\ card.request # "none"
  /\ \/ card.request = "joinRide"
          /\ joinRide_getUser(CardSlot, page.userId, page.ride.id, page.userId)
     \/ card.request = "leaveRide"
          /\ leaveRide_getUser(CardSlot, page.userId, page.ride.id, page.userId)
     \/ card.request = "deleteRide"
          /\ deleteRide_getUser(CardSlot, page.userId, page.ride.id)
  /\ card' = [card EXCEPT !.request = "none"]
  /\ Observe
  /\ UNCHANGED <<query, wrapped, page, drawer, gate, actor, hook>>

\* handleJoinLeave after its await.
handleJoinLeave_response ==
  /\ card.pending = "handleJoinLeave" /\ card.request = "none"
  /\ calls[CardSlot].pc = "done"
  /\ LET response == calls[CardSlot].result
         action == IF card.originalHasJoined THEN "leave" ELSE "join"
     IN  IF ~response.success
           THEN /\ card' = [handleJoinLeave_failure(card) EXCEPT
                              !.isJoining = FALSE, !.pending = "none",
                              !.lastPress.outcome = "failure"]
                /\ page' = page
           ELSE /\ page' = updateRideParticipants(page, page.ride.id, action)
                /\ card' = [syncEffect(card, page, page', page.ride.id) EXCEPT
                              !.isJoining = FALSE, !.pending = "none",
                              !.lastPress.outcome = "success",
                              !.lastPress.notified = @ + 1,
                              !.lastPress.notifiedAction = action]
  /\ UNCHANGED <<backendVars, query, wrapped, drawer, gate, actor, hook>>

\* handleRemove after its await. The state setters of a card that has been
\* torn down do nothing; onRideRemoved is called all the same.
handleRemove_response ==
  /\ card.pending = "handleRemove" /\ card.request = "none"
  /\ calls[CardSlot].pc = "done"
  /\ LET response == calls[CardSlot].result
         k0 == [card EXCEPT
                  !.pending = "none",
                  !.lastRemove.outcome = IF response.success THEN "success" ELSE "failure"]
         k1 == IF card.mounted
                 THEN [k0 EXCEPT !.isDeleting = IF card.isAutoDelete THEN @ ELSE FALSE]
                 ELSE k0
     IN  IF response.success /\ ~card.isAutoDelete
           THEN /\ page' = removeRideFromList(page, page.ride.id)
                /\ card' = unmount(k1)
           ELSE /\ page' = page
                /\ card' = IF k1.isDeleting # card.isDeleting
                             THEN countdownEffect(k1, page, now) ELSE k1
  /\ UNCHANGED <<backendVars, query, wrapped, drawer, gate, actor, hook>>

\* The requests of the card's call at the backend.
RideCard_backend ==
  /\ \/ joinRide_fetchRide(CardSlot)
     \/ joinRide_checkExisting(CardSlot)
     \/ joinRide_insert(CardSlot)
     \/ leaveRide_fetchRide(CardSlot)
     \/ leaveRide_checkParticipant(CardSlot)
     \/ leaveRide_delete(CardSlot)
     \/ deleteRide_fetchRide(CardSlot)
     \/ deleteRide_delete(CardSlot)
  /\ Observe
  /\ UNCHANGED others

\* The page has loaded a list with one open ride: created by the viewer or
\* by another user, preset 'now' (started at 0) or not (starting later); the
\* viewer's row and the list entry loaded for it are independent (the list
\* is not refreshed); the profile is loaded or not. Since the list was
\* loaded the ride may have been deleted from another client (deleted).
InitCard ==
  /\ now = ExpiryWindow - MaxAhead
  /\ usedIds = {CardRide}
  /\ calls = [c \in Calls |-> IdleCall]
  /\ trip = NoTrip
  /\ query = NoQuery
  /\ actor = NoActor
  /\ hook = NoHook
  /\ drawer = NoDrawer
  /\ gate = NoGate
  /\ wrapped = NoWrapped
  /\ card = NoCard
  /\ \E creator \in Users, preset \in Presets, row \in 0..1, joined \in BOOLEAN,
        profile \in BOOLEAN, deleted \in BOOLEAN :
       LET start == IF preset = "now" THEN 0 ELSE FarStart IN
       /\ creator = Viewer => (row = 0 /\ ~joined)
       /\ deleted => row = 0
       /\ rides = [r \in RideIds |->
                     IF deleted THEN NoRide
                     ELSE [creator_id |-> creator, status |-> "open", start_time |-> start]]
       /\ participants = [p \in RideIds \X Users |-> IF p[2] = Viewer THEN row ELSE 0]
       /\ page = [userId |-> Viewer, profile |-> profile, listed |-> TRUE, joined |-> joined,
                  ride |-> [id |-> CardRide, creator_id |-> creator, preset |-> preset,
                            start_time |-> start]]

NextCard ==
  \/ RideCard_mount
  \/ CardTick
  \/ handleRemove_press
  \/ handleJoinLeave_press
  \/ RideCard_getUser
  \/ RideCard_backend
  \/ handleJoinLeave_response
  \/ handleRemove_response

SpecCard == InitCard /\ [][NextCard]_vars

\* The clock runs, requests are answered and the handlers resume.
SpecCardFair ==
  /\ SpecCard
  /\ WF_vars(CardTick)
  /\ WF_vars(RideCard_getUser)
  /\ WF_vars(RideCard_backend)
  /\ WF_vars(handleJoinLeave_response)
  /\ WF_vars(handleRemove_response)

\* --------------------------------------- joinRide / leaveRide and the caller
\* joinRide and leaveRide calls followed with their authenticated caller.
\* One open ride that has not started exists; each user other than its
\* creator holds a row for it or not.
InitActor ==
  /\ now = 0
  /\ usedIds = RideIds
  /\ calls = [c \in Calls |-> IdleCall]
  /\ trip = NoTrip
  /\ query = NoQuery
  /\ wrapped = NoWrapped
  /\ card = NoCard
  /\ page = NoPage
  /\ drawer = NoDrawer
  /\ gate = NoGate
  /\ actor = NoActor
  /\ hook = NoHook
  /\ \E creator \in Users, rows \in [Users -> 0..1] :
       /\ rows[creator] = 0
       /\ rides = [r \in RideIds |->
                     [creator_id |-> creator, status |-> "open", start_time |-> MaxTime]]
       /\ participants = [p \in RideIds \X Users |-> rows[p[2]]]

NextActor ==
  \/ \E c \in Calls, caller \in Users \cup {NoUser}, rideId \in RideIds,
        userId \in Users \cup {NoUser} :
       /\ joinRide_getUser(c, caller, rideId, userId)
       /\ actor' = [actor EXCEPT ![c] = [caller |-> caller, userId |-> userId]]
       /\ Observe /\ UNCHANGED <<query, wrapped, card, page, drawer, gate, hook>>
  \/ \E c \in Calls, caller \in Users \cup {NoUser}, rideId \in RideIds,
        userId \in Users \cup {NoUser} :
       /\ leaveRide_getUser(c, caller, rideId, userId)
       /\ actor' = [actor EXCEPT ![c] = [caller |-> caller, userId |-> userId]]
       /\ Observe /\ UNCHANGED <<query, wrapped, card, page, drawer, gate, hook>>
  \/ \E c \in Calls : joinRide_fetchRide(c) /\ Observe /\ UNCHANGED others
  \/ \E c \in Calls : joinRide_checkExisting(c) /\ Observe /\ UNCHANGED others
  \/ \E c \in Calls : joinRide_insert(c) /\ Observe /\ UNCHANGED others
  \/ \E c \in Calls : leaveRide_fetchRide(c) /\ Observe /\ UNCHANGED others
  \/ \E c \in Calls : leaveRide_checkParticipant(c) /\ Observe /\ UNCHANGED others
  \/ \E c \in Calls : leaveRide_delete(c) /\ Observe /\ UNCHANGED others

SpecActor == InitActor /\ [][NextActor]_vars

\* ------------------------------------------- the card's timer and teardown
\* The page stops rendering the card (the view is switched to the map, or
\* the page shows its loader): the card is torn down.
RideCard_unmount ==
  /\ card.mounted
  /\ card' = unmount(card)
  /\ UNCHANGED <<backendVars, query, wrapped, page, drawer, gate, actor, hook>>

\* The parent renders the card with another preset, start time or acting
\* user: the countdown effect, which depends on them, runs again.
RideCard_propsChange ==
  /\ card.mounted
  /\ \E preset \in Presets, start_time \in {0, FarStart}, userId \in Users :
       /\ page' = [page EXCEPT !.ride.preset = preset, !.ride.start_time = start_time,
                               !.userId = userId]
       /\ page' # page
  /\ card' = countdownEffect(card, page', now)
  /\ UNCHANGED <<backendVars, query, wrapped, drawer, gate, actor, hook>>

NextTimer ==
  \/ RideCard_mount
  \/ RideCard_unmount
  \/ RideCard_propsChange
  \/ CardTick
  \/ handleRemove_press
  \/ RideCard_getUser
  \/ RideCard_backend
  \/ handleRemove_response

SpecTimer == InitCard /\ [][NextTimer]_vars

\* --------------------------------------- getTimeRangeForPreset (the drawer)
\* Instants are minutes of local wall-clock time since midnight of day 0.
MinutesPerDay == 24 * 60
TimePreset == {"now", "lunch", "afternoon"}
DrawerClock == 0..(MaxDays * MinutesPerDay - 1)

\* date-fns, on local time.
startOfDay(date) == date - (date % MinutesPerDay)
setHours(date, hours) == startOfDay(date) + hours * 60 + (date % 60)
addMinutes(date, amount) == date + amount
addDays(date, amount) == date + amount * MinutesPerDay
\* isPast that counts the present instant as past.
isPast_inclusive(date, clock) == date <= clock
\* isPast(date): date < Date.now(), clock being what Date.now() returns.
isPast(date, clock) == date < clock

\* The window of 'lunch' and 'afternoon' on the day of todayStart.
presetHours(preset) ==
  IF preset = "lunch" THEN [start |-> 12, end |-> 14] ELSE [start |-> 14, end |-> 18]

\* The call reads the clock (new Date()) and computes the window of today;
\* 'now' returns at once, the other presets go on to isPast.
getTimeRangeForPreset_call(preset) ==
  /\ drawer.pc = "open"
  /\ LET n == drawer.clock
         todayStart == startOfDay(n)
     IN drawer' =
          IF preset = "now"
            THEN [drawer EXCEPT !.pc = "returned", !.preset = preset, !.now = n,
                                !.startDate = n, !.endDate = addMinutes(n, 30),
                                !.comparedAt = n]
            ELSE [drawer EXCEPT !.pc = "isPast", !.preset = preset, !.now = n,
                                !.startDate = setHours(todayStart, presetHours(preset).start),
                                !.endDate = setHours(todayStart, presetHours(preset).end)]
  /\ UNCHANGED <<backendVars, query, wrapped, card, page, gate, actor, hook>>

\* isPast(startDate) reads the clock again; a start already past moves the
\* window to tomorrow. The call returns.
getTimeRangeForPreset_isPast ==
  /\ drawer.pc = "isPast"
  /\ LET moved == isPast(drawer.startDate, drawer.clock) IN
     drawer' = [drawer EXCEPT
                  !.pc = "returned",
                  !.comparedAt = drawer.clock,
                  !.startDate = IF moved THEN addDays(@, 1) ELSE @,
                  !.endDate = IF moved THEN addDays(@, 1) ELSE @]
  /\ UNCHANGED <<backendVars, query, wrapped, card, page, gate, actor, hook>>

\* A minute passes between new Date() and isPast.
DrawerTick ==
  /\ drawer.pc = "isPast"
  /\ drawer.clock - drawer.now < MaxDrift
  /\ drawer' = [drawer EXCEPT !.clock = @ + 1]
  /\ UNCHANGED <<backendVars, query, wrapped, card, page, gate, actor, hook>>

InitDrawer ==
  /\ now = 0
  /\ rides = [r \in RideIds |-> NoRide]
  /\ usedIds = {}
  /\ participants = [p \in RideIds \X Users |-> 0]
  /\ calls = [c \in Calls |-> IdleCall]
  /\ trip = NoTrip
  /\ query = NoQuery
  /\ actor = NoActor
  /\ hook = NoHook
  /\ wrapped = NoWrapped
  /\ card = NoCard
  /\ page = NoPage
  /\ gate = NoGate
  /\ \E t \in DrawerClock : drawer = [NoDrawer EXCEPT !.pc = "open", !.clock = t]

NextDrawer ==
  \/ \E preset \in TimePreset : getTimeRangeForPreset_call(preset)
  \/ getTimeRangeForPreset_isPast
  \/ DrawerTick

SpecDrawer == InitDrawer /\ [][NextDrawer]_vars

\* ------------------------------------------------ updateSession (the gate)
\* A pathname is the sequence of the pieces it is written with, so that one
\* pathname starts with another exactly when its pieces do.
Root == <<"/">>
LoginPath == <<"/auth/login">>
SignUpPath == <<"/auth/sign-up">>
CallbackPath == <<"/auth/callback">>
ConfirmPath == <<"/auth/confirm">>
SignUpSuccessPath == <<"/auth/sign-up", "-success">>
AuthErrorPath == <<"/auth/error">>
OnboardingPath == <<"/onboarding">>
ProtectedPath == <<"/protected">>
ProfilePath == <<"/profile">>
TeamPath == <<"/team">>
Pathnames == {Root, LoginPath, SignUpPath, CallbackPath, ConfirmPath, SignUpSuccessPath,
              AuthErrorPath, OnboardingPath, ProtectedPath, ProfilePath, TeamPath}
startsWith(pathname, path) ==
  Len(path) <= Len(pathname) /\ SubSeq(pathname, 1, Len(path)) = path

\* The answers of updateSession.
NoAnswer == [kind |-> "none"]
next == [kind |-> "next"]
redirect(pathname) == [kind |-> "redirect", pathname |-> pathname]

\* What maybeSingle() on profiles gives: an error, no row (data null), or
\* the row's onboarding_completed (true, false or null).
NoLookup == [error |-> FALSE, data |-> "not fetched"]
ProfileLookups ==
  {[error |-> TRUE, data |-> "null"]}
    \cup {[error |-> FALSE, data |-> d] : d \in {"null", "row:true", "row:false", "row:null"}}
\* profile?.onboarding_completed
onboardingCompleted(profile) ==
  CASE profile.data = "row:true" -> "true"
    [] profile.data = "row:false" -> "false"
    [] profile.data = "row:null" -> "null"
    [] OTHER -> "undefined"

publicPaths == {LoginPath, SignUpPath, CallbackPath, ConfirmPath}
\* isPublicPath that also lets the onboarding page through.
isPublicPath_withOnboarding(pathname) ==
  \/ \E path \in publicPaths \cup {OnboardingPath} : startsWith(pathname, path)
  \/ pathname = Root
isPublicPath(pathname) ==
  \/ \E path \in publicPaths : startsWith(pathname, path)
  \/ pathname = Root
isOnboardingPath(pathname) == startsWith(pathname, OnboardingPath)

\* updateSession without a user.
updateSession_noUser(pathname) ==
  IF ~isPublicPath(pathname) THEN redirect(LoginPath) ELSE next

\* updateSession_onboarding that sends a visitor who has not completed
\* onboarding to the onboarding page from the onboarding page too.
updateSession_onboarding_fromAnywhere(pathname, profile) ==
  IF profile.error THEN next
  ELSE IF onboardingCompleted(profile) = "false" /\ ~isPublicPath(pathname)
    THEN redirect(OnboardingPath)
  ELSE IF onboardingCompleted(profile) = "true" /\ isOnboardingPath(pathname)
    THEN redirect(ProtectedPath)
  ELSE IF isPublicPath(pathname) /\ pathname # Root
    THEN redirect(ProtectedPath)
  ELSE next

\* updateSession with a user, once the profile lookup has answered.
updateSession_onboarding(pathname, profile) ==
  IF profile.error THEN next
  ELSE IF onboardingCompleted(profile) = "false" /\ ~isOnboardingPath(pathname)
            /\ ~isPublicPath(pathname)
    THEN redirect(OnboardingPath)
  ELSE IF onboardingCompleted(profile) = "true" /\ isOnboardingPath(pathname)
    THEN redirect(ProtectedPath)
  ELSE IF isPublicPath(pathname) /\ pathname # Root
    THEN redirect(ProtectedPath)
  ELSE next

\* auth.getUser() answers: without a user the request is answered at once.
updateSession_getUser(user) ==
  /\ gate.pc = "getUser"
  /\ gate' = IF user = NoUser
               THEN [gate EXCEPT !.pc = "answered", !.user = user,
                                 !.response = updateSession_noUser(gate.pathname)]
               ELSE [gate EXCEPT !.pc = "profile", !.user = user]
  /\ UNCHANGED <<backendVars, query, wrapped, card, page, drawer, actor, hook>>

\* The profile lookup answers, and the request is answered.
updateSession_profile(profile) ==
  /\ gate.pc = "profile"
  /\ gate' = [gate EXCEPT !.pc = "answered", !.profile = profile,
                          !.response = updateSession_onboarding(gate.pathname, profile)]
  /\ UNCHANGED <<backendVars, query, wrapped, card, page, drawer, actor, hook>>

InitGate ==
  /\ now = 0
  /\ rides = [r \in RideIds |-> NoRide]
  /\ usedIds = {}
  /\ participants = [p \in RideIds \X Users |-> 0]
  /\ calls = [c \in Calls |-> IdleCall]
  /\ trip = NoTrip
  /\ query = NoQuery
  /\ actor = NoActor
  /\ hook = NoHook
  /\ wrapped = NoWrapped
  /\ card = NoCard
  /\ page = NoPage
  /\ drawer = NoDrawer
  /\ \E pathname \in Pathnames :
       gate = [pc |-> "getUser", pathname |-> pathname, user |-> NoUser,
               profile |-> NoLookup, response |-> NoAnswer, redirects |-> 0]

NextGate ==
  \/ \E user \in Users \cup {NoUser} : updateSession_getUser(user)
  \/ \E profile \in ProfileLookups : updateSession_profile(profile)

SpecGate == InitGate /\ [][NextGate]_vars

\* ------------------------------------------- following the gate's redirects
\* The browser follows a redirect: it requests the pathname it was sent to.
\* The redirects of updateSession keep the origin and set only the pathname.
followRedirect ==
  /\ gate.pc = "answered" /\ gate.response.kind = "redirect"
  /\ gate.redirects < MaxRedirects
  /\ gate' = [gate EXCEPT !.pc = "getUser", !.pathname = gate.response.pathname,
                          !.response = NoAnswer, !.redirects = @ + 1]
  /\ UNCHANGED <<backendVars, query, wrapped, card, page, drawer, actor, hook>>

\* The session and the profile stay what the first request found.
NextFollow ==
  \/ \E user \in Users \cup {NoUser} :
       /\ gate.redirects > 0 => user = gate.user
       /\ updateSession_getUser(user)
  \/ \E profile \in ProfileLookups :
       /\ gate.redirects > 0 => profile = gate.profile
       /\ updateSession_profile(profile)
  \/ followRedirect

SpecFollow == InitGate /\ [][NextFollow]_vars

\* ----------------------------------------------------- useCurrentUserProfile
\* hook.pc is where setup() of the effect stands: "getUser" and "fetch" are
\* its two awaits, "listening" is after subscribe(), "ended" after a return
\* without a channel. closed is the profile the event handler closes over,
\* channel whether the effect's variable channel is set, subscriptions the
\* number of channels of the hook that are subscribed and not removed.
\* payload and events (a parity) are history: the last event delivered.
Profiles == [ProfileFields -> FieldValues]
Payloads == [ProfileFields -> FieldValues \cup {Absent}]

\* profile?.field
optional(profile, f) == IF profile = NoProfile THEN "undefined" ELSE profile[f]
\* profile?.field ?? null
orNull(profile, f) == IF profile = NoProfile THEN Null ELSE profile[f]

\* The handler of the change event: the profile it passes to setProfile, or
\* the one it leaves when nothing changed; profile is the one it closes over.
onProfileChange(current, profile, payload) ==
  LET differs(f) == payload[f] # Absent /\ payload[f] # optional(profile, f)
      newProfile == [f \in ProfileFields |->
                       IF differs(f) THEN payload[f] ELSE orNull(profile, f)]
  IN  IF \E f \in ProfileFields : differs(f) THEN newProfile ELSE current

\* await getCurrentUser(): without a user setup returns.
setup_getUser(user) ==
  /\ hook.pc = "getUser"
  /\ hook' = [hook EXCEPT !.pc = IF user = NoUser THEN "ended" ELSE "fetch"]
  /\ UNCHANGED <<backendVars, query, wrapped, card, page, drawer, gate, actor>>

\* await fetchProfile() returns (a hook torn down ignores setProfile), and
\* setup creates the channel and subscribes; the handler closes over the
\* profile of the render the effect ran in.
setup_subscribe(data) ==
  /\ hook.pc = "fetch"
  /\ hook' = [hook EXCEPT !.pc = "listening",
                          !.profile = IF hook.mounted THEN data ELSE @,
                          !.channel = TRUE,
                          !.subscriptions = @ + 1]
  /\ UNCHANGED <<backendVars, query, wrapped, card, page, drawer, gate, actor>>

\* fetchProfile called again by the component that uses the hook.
fetchProfile(data) ==
  /\ hook.mounted /\ hook.pc \in {"listening", "ended"}
  /\ hook' = [hook EXCEPT !.profile = data]
  /\ UNCHANGED <<backendVars, query, wrapped, card, page, drawer, gate, actor>>

\* A change event arrives on a subscribed channel.
profileEvent(payload) ==
  /\ hook.subscriptions > 0
  /\ hook' = [hook EXCEPT
                !.profile = IF hook.mounted
                              THEN onProfileChange(hook.profile, hook.closed, payload) ELSE @,
                !.payload = payload,
                !.events = 1 - @]
  /\ UNCHANGED <<backendVars, query, wrapped, card, page, drawer, gate, actor>>

\* The cleanup of the effect: removeChannel when channel is set.
teardown ==
  /\ hook.mounted
  /\ hook' = [hook EXCEPT !.mounted = FALSE,
                          !.subscriptions = IF hook.channel THEN @ - 1 ELSE @]
  /\ UNCHANGED <<backendVars, query, wrapped, card, page, drawer, gate, actor>>

\* The hook has been mounted: first render (profile null), effect run.
InitHook ==
  /\ now = 0
  /\ rides = [r \in RideIds |-> NoRide]
  /\ usedIds = {}
  /\ participants = [p \in RideIds \X Users |-> 0]
  /\ calls = [c \in Calls |-> IdleCall]
  /\ trip = NoTrip
  /\ query = NoQuery
  /\ wrapped = NoWrapped
  /\ card = NoCard
  /\ page = NoPage
  /\ drawer = NoDrawer
  /\ gate = NoGate
  /\ actor = NoActor
  /\ hook = [NoHook EXCEPT !.pc = "getUser", !.mounted = TRUE]

NextHook ==
  \/ \E user \in Users \cup {NoUser} : setup_getUser(user)
  \/ \E data \in Profiles \cup {NoProfile} : setup_subscribe(data)
  \/ \E data \in Profiles \cup {NoProfile} : fetchProfile(data)
  \/ \E payload \in Payloads : profileEvent(payload)
  \/ teardown

SpecHook == InitHook /\ [][NextHook]_vars

\* ------------------------------------------------ a 'now' ride and its joins
\* The drawer creates a ride with preset 'now'; joinRide and updateRide
\* calls follow. The drawer and the calls read the one clock, now.

\* getTimeRangeForPreset('now').start: startDate = now
startOfNow(t) == t

\* handleCreateRide up to its insert request: the window of the preset is
\* computed from the clock read at the press.
handleCreateRide_press ==
  /\ drawer.pc = "open"
  /\ page.userId # NoUser
  /\ drawer' = [drawer EXCEPT !.pc = "inserting", !.preset = "now", !.now = now,
                              !.startDate = startOfNow(now)]
  /\ UNCHANGED <<backendVars, query, wrapped, card, page, gate, actor, hook>>

\* The insert into rides answers with the new row (status defaults to
\* 'open'); onRideCreated adds the ride to the list and the drawer closes.
handleCreateRide_insert(id) ==
  /\ drawer.pc = "inserting"
  /\ id \notin usedIds
  /\ rides' = [rides EXCEPT ![id] = [creator_id |-> page.userId, status |-> "open",
                                     start_time |-> drawer.startDate]]
  /\ usedIds' = usedIds \cup {id}
  /\ page' = [page EXCEPT !.listed = TRUE,
                          !.ride = [id |-> id, creator_id |-> page.userId,
                                    preset |-> drawer.preset, start_time |-> drawer.startDate]]
  /\ drawer' = [drawer EXCEPT !.pc = "closed"]
  /\ UNCHANGED <<now, participants, calls, trip, query, wrapped, card, gate, actor, hook>>

\* The drawer is open on the page of a signed-in user; no ride exists.
InitNow ==
  /\ now = 0
  /\ rides = [r \in RideIds |-> NoRide]
  /\ usedIds = {}
  /\ participants = [p \in RideIds \X Users |-> 0]
  /\ calls = [c \in Calls |-> IdleCall]
  /\ trip = NoTrip
  /\ query = NoQuery
  /\ wrapped = NoWrapped
  /\ card = NoCard
  /\ gate = NoGate
  /\ actor = NoActor
  /\ hook = NoHook
  /\ drawer = [NoDrawer EXCEPT !.pc = "open"]
  /\ \E userId \in Users : page = [NoPage EXCEPT !.userId = userId]

NextNow ==
  \/ handleCreateRide_press
  \/ \E id \in RideIds : handleCreateRide_insert(id)
  \/ \E c \in Calls, caller \in Users \cup {NoUser}, rideId \in RideIds, userId \in Users \cup {NoUser} :
       joinRide_getUser(c, caller, rideId, userId) /\ UNCHANGED trip /\ UNCHANGED others
  \/ \E c \in Calls : joinRide_fetchRide(c) /\ UNCHANGED trip /\ UNCHANGED others
  \/ \E c \in Calls : joinRide_checkExisting(c) /\ UNCHANGED trip /\ UNCHANGED others
  \/ \E c \in Calls : joinRide_insert(c) /\ UNCHANGED trip /\ UNCHANGED others
  \/ \E c \in Calls, caller \in Users \cup {NoUser}, id \in RideIds :
       updateRide_getUser(c, caller, id) /\ UNCHANGED trip /\ UNCHANGED others
  \/ \E c \in Calls : updateRide_fetchRide(c) /\ UNCHANGED trip /\ UNCHANGED others
  \/ \E c \in Calls, updates \in UpdateRideInput :
       /\ updateRide_update(c, updates)
       /\ drawer' = [drawer EXCEPT !.moved = @ \/ \E r \in RideIds :
                                       rides'[r].start_time # rides[r].start_time]
       /\ UNCHANGED <<trip, query, wrapped, card, page, gate, actor, hook>>
  \/ Tick /\ UNCHANGED trip /\ UNCHANGED others

SpecNow == InitNow /\ [][NextNow]_vars

\* ====================================================================
\* Properties
\* ====================================================================
Pairs == RideIds \X Users
Failure(code) == createErrorResponse(createApiError(code, SiteMessage))
Pair(c) == <<calls[c].rideId, calls[c].target>>
\* Call c, an op call waiting at pc, takes its step.
Steps(c, op, pc) == calls[c].op = op /\ calls[c].pc = pc /\ calls'[c] # calls[c]
\* The step ends call c with the failure code and writes no table.
Rejects(c, code) ==
  /\ calls'[c].pc = "done" /\ calls'[c].result = Failure(code)
  /\ participants' = participants /\ rides' = rides

\* C1: after any interleaving of joinRide and leaveRide calls, two
\* overlapping joinRide calls for the same pair included, the participation
\* table holds at most one row for each (ride, user) pair.
C1_AtMostOneRowPerPair == \A p \in Pairs : participants[p] <= 1

\* C2: joinRide for the creator of the ride fails, and after any sequence of
\* createRide, joinRide, leaveRide, updateRide and deleteRide calls the
\* participation table holds no row (r, r.creator).
C2_NoSelfParticipation ==
  /\ \A r \in RideIds : rides[r] # NoRide => participants[<<r, rides[r].creator_id>>] = 0
  /\ \A c \in Calls :
       (/\ calls[c].op = "joinRide" /\ calls[c].pc = "done" /\ calls[c].target \in Users
        /\ rides[calls[c].rideId] # NoRide
        /\ rides[calls[c].rideId].creator_id = calls[c].target)
       => ~calls[c].result.success
C2_Witness ==
  \E c \in Calls :
    /\ calls[c].op = "joinRide" /\ calls[c].pc = "done"
    /\ rides[calls[c].rideId] # NoRide
    /\ rides[calls[c].rideId].creator_id = calls[c].target
    /\ calls[c].result = Failure("ALREADY_PARTICIPANT")

\* C3: a joinRide call (its target user resolved, that is, issued with a
\* session) that reads an existing ride whose status is closed or cancelled
\* returns the failure envelope RIDE_EXPIRED and leaves the participation
\* table unchanged, whoever the target user is.
C3_NotOpenRejected ==
  [][\A c \in Calls :
       (/\ Steps(c, "joinRide", "fetch")
        /\ rides[calls[c].rideId] # NoRide
        /\ rides[calls[c].rideId].status \in {"closed", "cancelled"})
       => Rejects(c, "RIDE_EXPIRED")]_vars
C3_Witness ==
  \E c \in Calls :
    /\ calls[c].op = "joinRide" /\ calls[c].pc = "done"
    /\ calls[c].result = Failure("RIDE_EXPIRED")
    /\ rides[calls[c].rideId] # NoRide
    /\ rides[calls[c].rideId].status \in {"closed", "cancelled"}
    /\ rides[calls[c].rideId].start_time > now

\* C4: a joinRide call that reads an existing ride whose start time is at or
\* before the current time fails with RIDE_EXPIRED and inserts no row,
\* whatever the status of the ride and whoever the target user is.
C4_StartedRejected ==
  [][\A c \in Calls :
       (/\ Steps(c, "joinRide", "fetch")
        /\ rides[calls[c].rideId] # NoRide
        /\ rides[calls[c].rideId].start_time <= now)
       => Rejects(c, "RIDE_EXPIRED")]_vars
C4_Witness ==
  \E c \in Calls :
    /\ calls[c].op = "joinRide" /\ calls[c].pc = "done"
    /\ calls[c].result = Failure("RIDE_EXPIRED")
    /\ rides[calls[c].rideId] # NoRide
    /\ rides[calls[c].rideId].status = "open"
    /\ rides[calls[c].rideId].start_time = now
    /\ rides[calls[c].rideId].creator_id = calls[c].target

\* C5: for every pair that already has a participation row, a further
\* joinRide call for the pair fails with ALREADY_PARTICIPANT and creates no
\* row.  Stated for the calls issued when the pair held a row and that find
\* the ride open and not yet started, the case in which the order of the
\* checks makes ALREADY_PARTICIPANT the code of the first failing check.
C5_ExistingRowRejected ==
  [][\A c \in Calls :
       /\ (/\ Steps(c, "joinRide", "fetch") /\ calls[c].hadRow
           /\ participants[Pair(c)] >= 1
           /\ rides[calls[c].rideId] # NoRide
           /\ rides[calls[c].rideId].status = "open"
           /\ rides[calls[c].rideId].start_time > now)
            => (calls'[c].pc = "check" /\ participants' = participants)
       /\ (Steps(c, "joinRide", "check") /\ calls[c].hadRow /\ participants[Pair(c)] >= 1)
            => Rejects(c, "ALREADY_PARTICIPANT")]_vars

\* C6: leaveRide whose target user is the creator of the ride fails with
\* CANNOT_LEAVE_OWN_RIDE and deletes no row of the participation table or of
\* the rides table.
C6_CreatorCannotLeave ==
  [][\A c \in Calls :
       (/\ Steps(c, "leaveRide", "fetch")
        /\ rides[calls[c].rideId] # NoRide
        /\ rides[calls[c].rideId].creator_id = calls[c].target)
       => Rejects(c, "CANNOT_LEAVE_OWN_RIDE")]_vars
C6_Witness ==
  \E c \in Calls :
    /\ calls[c].op = "leaveRide" /\ calls[c].pc = "done"
    /\ calls[c].result = Failure("CANNOT_LEAVE_OWN_RIDE")
    /\ rides[calls[c].rideId] # NoRide
    /\ rides[calls[c].rideId].creator_id = calls[c].target

\* C7: leaveRide on an existing ride for a target user who is not the
\* creator and has no participation row fails with NOT_PARTICIPANT and
\* leaves the participation table unchanged.
C7_NonParticipantCannotLeave ==
  [][\A c \in Calls :
       /\ (/\ Steps(c, "leaveRide", "fetch")
           /\ rides[calls[c].rideId] # NoRide
           /\ rides[calls[c].rideId].creator_id # calls[c].target)
            => (calls'[c].pc = "check" /\ participants' = participants)
       /\ (Steps(c, "leaveRide", "check") /\ participants[Pair(c)] = 0)
            => Rejects(c, "NOT_PARTICIPANT")]_vars
C7_Witness ==
  \E c \in Calls :
    /\ calls[c].op = "leaveRide" /\ calls[c].pc = "done"
    /\ calls[c].result = Failure("NOT_PARTICIPANT")
    /\ rides[calls[c].rideId] # NoRide
    /\ rides[calls[c].rideId].creator_id # calls[c].target
    /\ participants[Pair(c)] = 0

\* C8: round trip.  From a table with no row for the pair, a successful
\* joinRide followed by a leaveRide for the same pair (no other call writing
\* the participation table or deleting the ride in between) succeeds and
\* returns the participation table to what it was before the join, also when
\* the start time of the ride passes or its status changes between the calls.
C8_RoundTrip ==
  trip.stage = "left" =>
    /\ calls[trip.call].result = createSuccessResponse(Null)
    /\ participants = trip.before
C8_Witness ==
  /\ trip.stage = "left"
  /\ trip.late
  /\ calls[trip.call].result.success
  /\ participants[<<trip.rideId, trip.user>>] = 0

\* C9: joinRide evaluates its checks in the order ride exists, status is
\* open, start time in the future, target is not the creator, no existing
\* row; the code returned is that of the first check that fails (NOT_FOUND,
\* RIDE_EXPIRED, RIDE_EXPIRED, ALREADY_PARTICIPANT, ALREADY_PARTICIPANT) and
\* the call goes on to the insert only when all five pass.
C9_CheckOrder ==
  [][\A c \in Calls :
       LET ride == rides[calls[c].rideId] IN
       /\ Steps(c, "joinRide", "fetch") =>
            IF ride = NoRide THEN Rejects(c, "NOT_FOUND")
            ELSE IF ride.status # "open" THEN Rejects(c, "RIDE_EXPIRED")
            ELSE IF ~(ride.start_time > now) THEN Rejects(c, "RIDE_EXPIRED")
            ELSE IF ride.creator_id = calls[c].target THEN Rejects(c, "ALREADY_PARTICIPANT")
            ELSE calls'[c].pc = "check"
       /\ Steps(c, "joinRide", "check") =>
            IF participants[Pair(c)] > 0 THEN Rejects(c, "ALREADY_PARTICIPANT")
            ELSE calls'[c].pc = "insert"]_vars

\* C10: updateRide and deleteRide change the rides table only when the
\* authenticated caller is the creator of the ride: without a caller they
\* fail with UNAUTHORIZED, for an absent ride with NOT_FOUND, for a caller
\* who is not the creator with UNAUTHORIZED, and every failing call leaves
\* the rides table unchanged.
C10_CreatorOnlyWrites ==
  [][\A c \in Calls, op \in {"updateRide", "deleteRide"} :
       LET existingRide == rides[calls[c].rideId] IN
       \* getUser: a call goes on only with a caller, else UNAUTHORIZED
       /\ (Free(c) /\ calls'[c] # calls[c] /\ calls'[c].op = op) =>
            \/ calls'[c].pc = "fetch" /\ calls'[c].caller \in Users /\ rides' = rides
            \/ Rejects(c, "UNAUTHORIZED")
       \* the fetch and the creator check
       /\ Steps(c, op, "fetch") =>
            IF existingRide = NoRide THEN Rejects(c, "NOT_FOUND")
            ELSE IF existingRide.creator_id # calls[c].caller THEN Rejects(c, "UNAUTHORIZED")
            ELSE calls'[c].pc = "write" /\ rides' = rides
       \* the write
       /\ (Steps(c, op, "write") /\ rides' # rides) =>
            /\ existingRide # NoRide
            /\ existingRide.creator_id = calls[c].caller
            /\ calls'[c].result.success
       /\ (calls[c].op = op /\ calls'[c] # calls[c] /\ calls'[c].pc = "done"
             /\ ~calls'[c].result.success) => rides' = rides]_vars
C10_Witness ==
  \E c, d \in Calls :
    /\ calls[c].op = "updateRide" /\ calls[c].pc = "done"
    /\ calls[c].result = Failure("UNAUTHORIZED")
    /\ calls[c].caller \in Users
    /\ rides[calls[c].rideId] # NoRide
    /\ rides[calls[c].rideId].creator_id # calls[c].caller
    /\ calls[d].op = "deleteRide" /\ calls[d].pc = "done"
    /\ calls[d].result = Failure("UNAUTHORIZED")
    /\ calls[d].caller = NoUser

\* C11: every row createRide inserts has creator_id equal to the
\* authenticated caller and status 'open', whatever fields the input carries;
\* with no session createRide fails with UNAUTHORIZED and inserts nothing.
C11_CreateRideRow ==
  [][\A c \in Calls :
       \* getUser: without a session the call ends with UNAUTHORIZED
       /\ (Free(c) /\ calls'[c] # calls[c] /\ calls'[c].op = "createRide") =>
            \/ calls'[c].pc = "insert" /\ calls'[c].caller \in Users /\ rides' = rides
            \/ calls'[c].caller = NoUser /\ Rejects(c, "UNAUTHORIZED")
       \* the insert
       /\ Steps(c, "createRide", "insert") =>
            \A id \in RideIds :
              rides'[id] # rides[id] =>
                /\ rides[id] = NoRide
                /\ rides'[id].creator_id = calls[c].caller
                /\ rides'[id].creator_id \in Users
                /\ rides'[id].status = "open"]_vars
C11_Witness ==
  \E c, d \in Calls :
    /\ calls[c].op = "createRide" /\ calls[c].pc = "done" /\ calls[c].result.success
    /\ rides[calls[c].rideId] # NoRide
    /\ rides[calls[c].rideId].creator_id = calls[c].caller
    /\ rides[calls[c].rideId].status = "open"
    /\ calls[d].op = "createRide" /\ calls[d].pc = "done"
    /\ calls[d].caller = NoUser
    /\ calls[d].result = Failure("UNAUTHORIZED")

\* C12: when getAllRides runs with no authenticated user, every ride it
\* returns has is_creator = false and is_participant = false, whatever the
\* creator and the participant rows of the ride are.
C12_NoUserNoFlags ==
  (query.pc = "done" /\ query.currentUserId = NoUser) =>
    \A r \in RideIds :
      query.result[r].listed =>
        ~query.result[r].is_creator /\ ~query.result[r].is_participant
C12_Witness ==
  /\ query.pc = "done" /\ query.currentUserId = NoUser
  /\ \E r \in RideIds :
       /\ query.result[r].listed
       /\ query.result[r].participant_count > 0
       /\ ~query.result[r].is_creator /\ ~query.result[r].is_participant

\* C13: handleApiOperation lets no exception escape: for every wrapped
\* operation it returns one envelope, {data, error: null, success: true}
\* when the operation returns and {data: null, error, success: false} when
\* it throws, so success is true exactly when error is null; the code and
\* the user message of an AppError are carried into the envelope unchanged.
C13_UniformEnvelope ==
  wrapped.pc = "resolved" =>
    LET o == wrapped.operation
        r == wrapped.response
    IN  /\ r.success <=> r.error = NoApiError
        /\ ~o.threw => r = [data |-> o.data, error |-> NoApiError, success |-> TRUE]
        /\ o.threw => /\ r.data = Null /\ ~r.success
                      /\ r.error.code \in ApiErrorCode
                      /\ r.error.userMessage # ""
        /\ (o.threw /\ o.error.kind = "AppError") =>
             /\ r.error.code = o.error.code
             /\ r.error.userMessage = o.error.userMessage
C13_Witness ==
  /\ wrapped.pc = "resolved"
  /\ wrapped.operation.threw
  /\ wrapped.operation.error.kind = "AppError"
  /\ wrapped.operation.error.userMessage # ERROR_MESSAGES[wrapped.operation.error.code]
  /\ wrapped.response =
       [data |-> Null, success |-> FALSE,
        error |-> [code |-> wrapped.operation.error.code,
                   userMessage |-> wrapped.operation.error.userMessage]]

\* C14: in every state of the dashboard where no join/leave call of the
\* card is in flight, the card's hasJoined flag equals whether the acting
\* user is in the in-memory participant list of the ride, and both agree with
\* the outcome of the card's last join/leave call, also when the acting user
\* has no loaded profile.
C14_FlagAgreesWithList ==
  (card.mounted /\ card.pending # "handleJoinLeave") =>
    /\ card.optimisticHasJoined = page.joined
    /\ card.lastPress.outcome = "success" =>
         card.optimisticHasJoined = (card.lastPress.action = "join")
    /\ card.lastPress.outcome = "failure" =>
         card.optimisticHasJoined = card.lastPress.flagBefore

\* C15: on a join/leave press by a non-creator the card flips hasJoined
\* before the backend call returns; when the call reports failure hasJoined
\* is set back to its value before the press and the parent list is not
\* touched; when it reports success hasJoined keeps the flipped value and the
\* parent is notified exactly once, with the matching action.
C15_OptimisticFlip ==
  LET press == card.lastPress IN
  /\ press.outcome = "pending" =>
       /\ card.optimisticHasJoined = ~press.flagBefore
       /\ page.joined = press.listBefore
       /\ press.notified = 0
  /\ press.outcome = "failure" =>
       /\ card.optimisticHasJoined = press.flagBefore
       /\ page.joined = press.listBefore
       /\ press.notified = 0
  /\ press.outcome = "success" =>
       /\ card.optimisticHasJoined = ~press.flagBefore
       /\ press.notified = 1
       /\ press.notifiedAction = press.action
       /\ press.action = (IF press.flagBefore THEN "leave" ELSE "join")
C15_Witness ==
  /\ card.lastPress.outcome = "failure"
  /\ card.lastPress.action = "leave"
  /\ card.optimisticHasJoined
  /\ ~card.isJoining
  /\ calls[CardSlot].op = "leaveRide"
  /\ calls[CardSlot].result = Failure("NOT_PARTICIPANT")

C17_AutoDeleteLikeRemove ==
  card.lastRemove.outcome = "success" =>
    /\ calls[CardSlot].op = "deleteRide" /\ calls[CardSlot].rideId = page.ride.id
    /\ ~page.listed
    /\ ~card.isDeleting

\* C18: getTimeRangeForPreset('lunch') returns 12:00 to 14:00 local time of
\* the day of the call, both moved to the following day when 12:00 of that
\* day is already past (a call at 15:00 gives 12:00 of the next day);
\* 'afternoon' does the same with 14:00 and 18:00; 'now' returns
\* [now, now + 30 minutes]; the start of 'lunch' and 'afternoon' is never
\* earlier than the instant of the call.
C18_PresetWindows ==
  drawer.pc = "returned" =>
    LET dayOf(t) == t \div MinutesPerDay
        timeOfDay(t) == t % MinutesPerDay
        window(from, to) ==
          /\ timeOfDay(drawer.startDate) = from /\ timeOfDay(drawer.endDate) = to
          /\ dayOf(drawer.endDate) = dayOf(drawer.startDate)
          /\ dayOf(drawer.startDate) =
               IF dayOf(drawer.now) * MinutesPerDay + from < drawer.comparedAt
                 THEN dayOf(drawer.now) + 1 ELSE dayOf(drawer.now)
          /\ drawer.startDate >= drawer.comparedAt
          /\ drawer.startDate >= drawer.now
    IN CASE drawer.preset = "now" ->
              drawer.startDate = drawer.now /\ drawer.endDate = drawer.now + 30
         [] drawer.preset = "lunch" ->
              /\ window(12 * 60, 14 * 60)
              /\ timeOfDay(drawer.now) = 15 * 60 =>
                   drawer.startDate = (dayOf(drawer.now) + 1) * MinutesPerDay + 12 * 60
         [] drawer.preset = "afternoon" -> window(14 * 60, 18 * 60)

\* A 'lunch' call at 15:00 has returned 12:00 to 14:00 of the next day.
C18_Witness ==
  /\ drawer.pc = "returned" /\ drawer.preset = "lunch"
  /\ drawer.now % MinutesPerDay = 15 * 60
  /\ drawer.startDate = drawer.now + 21 * 60
  /\ drawer.endDate = drawer.now + 23 * 60

C20_NotOnboardedRedirected ==
  (/\ gate.pc = "answered" /\ gate.user # NoUser
   /\ gate.profile.data # "row:true"
   /\ gate.pathname \in {ProtectedPath, ProfilePath, TeamPath})
    => gate.response = redirect(OnboardingPath)

\* C22: a precondition failure that joinRide or leaveRide detects itself,
\* such as the target user being the creator of the ride, is reported before
\* the invocation has made any request to the backend.
C22_LocalBeforeNetwork ==
  [][\A c \in Calls :
       (/\ calls[c].pc # "done" /\ calls'[c].pc = "done"
        /\ calls'[c].op \in {"joinRide", "leaveRide"}
        /\ rides[calls'[c].rideId] # NoRide
        /\ rides[calls'[c].rideId].creator_id = calls[c].target
        /\ calls'[c].result \in {Failure("ALREADY_PARTICIPANT"),
                                 Failure("CANNOT_LEAVE_OWN_RIDE")})
       => calls[c].pc \notin {"fetch", "check", "insert", "delete"}]_vars

\* C30: mapSupabaseError maps every backend error to exactly one code of
\* ApiErrorCode, SERVER_ERROR when nothing else applies, and to
\* DUPLICATE_ENTRY every error whose code is '23505' or whose message
\* contains 'duplicate'.
C30_DuplicateEntry ==
  (/\ wrapped.pc = "resolved" /\ wrapped.operation.threw
   /\ wrapped.operation.error.kind = "BackendError")
    => LET e == wrapped.operation.error
           code == wrapped.response.error.code
       IN  /\ code \in ApiErrorCode
           /\ (e.code \notin {"23503", "23505"} /\ e.message = {}) => code = "SERVER_ERROR"
           /\ (e.code = "23505" \/ "duplicate" \in e.message) => code = "DUPLICATE_ENTRY"

\* C21: no backend operation is retried automatically: after a deleteRide,
\* joinRide or leaveRide call issued by the card has reported failure, the
\* card issues no further call of the same operation until the viewer acts
\* again, whatever the interleaving of the call, the timer ticks and the
\* re-renders.
C21_NoAutomaticRetry ==
  [][LET failsNow(handler) ==
           /\ card.pending = handler /\ card.request = "none"
           /\ calls[CardSlot].pc = "done" /\ ~calls[CardSlot].result.success
           /\ card' # card
         failed(op) ==
           \/ op = "deleteRide"
                /\ (failsNow("handleRemove") \/ card.lastRemove.outcome = "failure")
           \/ op \in {"joinRide", "leaveRide"}
                /\ (failsNow("handleJoinLeave") \/ card.lastPress.outcome = "failure")
                /\ op = (IF card.lastPress.action = "join" THEN "joinRide" ELSE "leaveRide")
         issues(op) ==
           /\ card'.request = op
           /\ card.request = "none"
         byViewer ==
           /\ ~failsNow("handleRemove") /\ ~failsNow("handleJoinLeave")
           /\ card'.request = "deleteRide" => ~card'.isAutoDelete
     IN  \A op \in {"deleteRide", "joinRide", "leaveRide"} :
           (issues(op) /\ failed(op)) => byViewer]_vars

\* C29: while a join/leave call of the card is in flight, further presses
\* of the button issue no joinRide or leaveRide call and do not change
\* hasJoined; the in-flight flag is cleared when the call returns, on success
\* and on failure alike; the card has at most one join/leave call
\* outstanding, and the button always becomes usable again.
C29_OneJoinLeaveInFlight ==
  /\ [](card.isJoining <=> card.pending = "handleJoinLeave")
  /\ [](card.request \in {"joinRide", "leaveRide"} =>
          (calls[CardSlot].pc \in {"idle", "done"}))
  /\ [][(card.isJoining /\ card'.isJoining) =>
          /\ card'.optimisticHasJoined = card.optimisticHasJoined
          /\ card'.request \in {card.request, "none"}
          /\ card'.lastPress.action = card.lastPress.action]_vars
  /\ [][(card.isJoining /\ ~card'.isJoining) =>
          /\ calls[CardSlot].pc = "done"
          /\ card'.lastPress.outcome =
               (IF calls[CardSlot].result.success THEN "success" ELSE "failure")]_vars
  /\ (card.isJoining ~> ~card.isJoining)

\* A press came while the join call was in flight and was ignored; the call
\* has returned with a failure and the button is usable again.
C29_Witness ==
  /\ card.mounted /\ ~card.isJoining
  /\ card.lastPress.ignored
  /\ card.lastPress.action = "join"
  /\ card.lastPress.outcome = "failure"
  /\ ~card.optimisticHasJoined

\* C23: the card has at most one active countdown interval at any time, and
\* only while its preset is 'now'; the interval is cancelled when the card is
\* torn down and when the preset, the start time or the acting user changes,
\* so the interval that is set is always the one of the current props, and
\* once the card is torn down no tick updates it or triggers a deletion.
C23_OneTimer ==
  /\ [](/\ Len(card.intervals) <= 1
        /\ \A i \in 1..Len(card.intervals) :
             /\ card.mounted
             /\ page.ride.preset = "now"
             /\ card.intervals[i].ride.id = page.ride.id
             /\ card.intervals[i].ride.preset = page.ride.preset
             /\ card.intervals[i].ride.start_time = page.ride.start_time
             /\ card.intervals[i].userId = page.userId)
  /\ [][(~card.mounted /\ ~card'.mounted) =>
          /\ card'.timeLeft = card.timeLeft
          /\ card'.request \in {card.request, "none"}
          /\ card'.lastRemove.kind = card.lastRemove.kind]_vars

\* The card was torn down while counting; seconds have passed since and
\* the card still holds what it showed, with no interval set.
C23_Witness ==
  /\ ~card.mounted /\ page.listed
  /\ card.intervals = <<>>
  /\ page.ride.preset = "now"
  /\ card.timeLeft.state = "counting"
  /\ updateTimer(page.ride, now) = Expired

\* C27: joinRide and leaveRide act on the userId they are given, with no
\* check that it is the authenticated caller: a caller c passing a userId u
\* other than c creates or deletes the participation row of u, and the
\* creator and membership checks are made against u, not c.
C27_ActsOnSuppliedUser ==
  [][\A c \in Calls :
       LET a == actor'[c].caller
           u == actor'[c].userId
           r == calls[c].rideId
           other == a # NoUser /\ u # NoUser /\ u # a
       IN  /\ (other /\ Free(c) /\ calls'[c] # calls[c]) =>
                calls'[c].pc = "fetch" /\ calls'[c].target = u
           /\ (other /\ Steps(c, "joinRide", "fetch")) =>
                /\ rides[r].creator_id = u => Rejects(c, "ALREADY_PARTICIPANT")
                /\ rides[r].creator_id = a => calls'[c].pc = "check"
           /\ (other /\ Steps(c, "leaveRide", "fetch")) =>
                /\ rides[r].creator_id = u => Rejects(c, "CANNOT_LEAVE_OWN_RIDE")
                /\ rides[r].creator_id = a => calls'[c].pc = "check"
           /\ (other /\ Steps(c, "joinRide", "check")) =>
                IF participants[<<r, u>>] = 1
                  THEN Rejects(c, "ALREADY_PARTICIPANT") ELSE calls'[c].pc = "insert"
           /\ (other /\ Steps(c, "leaveRide", "check")) =>
                IF participants[<<r, u>>] = 1
                  THEN calls'[c].pc = "delete" ELSE Rejects(c, "NOT_PARTICIPANT")
           /\ (other /\ Steps(c, "joinRide", "insert")) =>
                /\ participants'[<<r, u>>] = participants[<<r, u>>] + 1
                /\ participants'[<<r, a>>] = participants[<<r, a>>]
                /\ calls'[c].result.success
           /\ (other /\ Steps(c, "leaveRide", "delete")) =>
                /\ participants'[<<r, u>>] = 0
                /\ participants'[<<r, a>>] = participants[<<r, a>>]
                /\ calls'[c].result.success]_vars

\* The creator of a ride has joined another user to it, and a caller has
\* removed the row of another user.
C27_Witness ==
  \E c, d \in Calls :
    /\ calls[c].op = "joinRide" /\ calls[c].pc = "done" /\ calls[c].result.success
    /\ actor[c].caller = rides[calls[c].rideId].creator_id
    /\ actor[c].userId = calls[c].target /\ actor[c].userId # actor[c].caller
    /\ calls[d].op = "leaveRide" /\ calls[d].pc = "done" /\ calls[d].result.success
    /\ actor[d].caller # NoUser
    /\ actor[d].userId = calls[d].target /\ actor[d].userId # actor[d].caller

\* C28: for a fixed session and onboarding state and any requested path,
\* following the redirects of the gate reaches a response that is served
\* after at most two redirects; no user state and path give a redirect cycle.
C28_RedirectsEnd ==
  /\ gate.redirects <= 2
  /\ (gate.pc = "answered" /\ gate.redirects = 2) => gate.response = next

\* An authenticated visitor who has not completed onboarding asked for the
\* login page and was served the onboarding page after two redirects.
C28_Witness ==
  /\ gate.pc = "answered" /\ gate.redirects = 2
  /\ gate.user # NoUser /\ gate.profile.data = "row:false"
  /\ gate.pathname = OnboardingPath
  /\ gate.response = next

\* C24: on a change event for the user's profile row the hook overwrites
\* only the local fields whose value in the event differs from the local
\* value; every field that is absent from the event or unchanged keeps the
\* value the local state held just before the event, for any sequence of
\* fetches and events.
C24_MergeChangedFields ==
  [][(hook'.events # hook.events /\ hook.mounted) =>
       \A f \in ProfileFields :
         LET before == orNull(hook.profile, f)
             after == orNull(hook'.profile, f)
             event == hook'.payload[f]
         IN  IF event = Absent \/ event = before THEN after = before
             ELSE after = event]_vars

\* C26: in every interleaving of the hook's asynchronous setup (get user,
\* initial fetch, subscribe) with its teardown, every subscription the hook
\* creates is removed: once teardown has run and setup has finished no
\* subscription of the hook is active, also when teardown runs before setup
\* has created the channel.
C26_SubscriptionsRemoved ==
  (~hook.mounted /\ hook.pc \in {"listening", "ended"}) => hook.subscriptions = 0

\* C25 as stated: a ride created through the drawer with preset 'now' gets
\* start_time equal to the creation instant, so every later joinRide call
\* for it fails: no user ever holds a participation row for a 'now' ride
\* during its 30-minute countdown.
C25_NowRideNeverJoined ==
  \A r \in RideIds :
    (/\ rides[r] # NoRide
     /\ page.ride.id = r /\ page.ride.preset = "now"
     /\ now < rides[r].start_time + ExpiryWindow)
    => \A u \in Users : participants[<<r, u>>] = 0

\* C25, amended: a ride created through the drawer with preset 'now' gets
\* start_time equal to the clock read at the press, and as long as no
\* updateRide call has changed that start_time every joinRide call for the
\* ride fails (RIDE_EXPIRED once it has read the ride; UNAUTHORIZED or
\* NOT_FOUND before that), none gets past the start-time check, and no
\* user holds a participation row for the ride.
C25_NowRideJoinedOnlyAfterMove ==
  \A r \in RideIds :
    (rides[r] # NoRide /\ page.ride.id = r /\ page.ride.preset = "now" /\ ~drawer.moved) =>
      /\ rides[r].start_time = drawer.startDate
      /\ rides[r].start_time <= now
      /\ \A u \in Users : participants[<<r, u>>] = 0
      /\ \A c \in Calls :
           (calls[c].op = "joinRide" /\ calls[c].rideId = r) =>
             /\ calls[c].pc \in {"fetch", "done"}
             /\ calls[c].pc = "done" =>
                  calls[c].result \in {Failure("UNAUTHORIZED"), Failure("NOT_FOUND"),
                                       Failure("RIDE_EXPIRED")}
\* A joinRide call of another user for the open 'now' ride, whose
\* start_time nobody moved, has been turned down with RIDE_EXPIRED, later
\* than the creation instant.
C25_Witness ==
  \E r \in RideIds, c \in Calls :
    /\ rides[r] # NoRide /\ page.ride.id = r /\ page.ride.preset = "now" /\ ~drawer.moved
    /\ rides[r].status = "open"
    /\ now > rides[r].start_time
    /\ calls[c].op = "joinRide" /\ calls[c].rideId = r /\ calls[c].pc = "done"
    /\ calls[c].target # NoUser /\ calls[c].target # rides[r].creator_id
    /\ calls[c].result = Failure("RIDE_EXPIRED")

====
